---- MODULE Spec2Model ----
(***************************************************************************)
(* Model of the polling/coordination core of the tado_hijack integration:  *)
(* the data manager (fast/slow fetch tracks), the optimistic overlay, the  *)
(* per-key command queue, the rate-limit snapshot captured by the patched  *)
(* request, and the coordinator's refresh cycle and mutating operations.   *)
(*                                                                         *)
(* Tasks interleave only at awaits (asyncio): every action below is the    *)
(* code that runs between two awaits of one task.                          *)
(***************************************************************************)
EXTENDS Integers, Sequences, FiniteSets, TLC

\* ------------------------------------------------------------------ bounds
MaxTime == 7200          \* the clock stops here in runs that span a slow poll
MaxShortTime == 60       \* the clock stops here in runs that span a grace period
MaxOps == 2              \* mutating operations issued by the user
MaxCycles == 2           \* refresh cycles started
MaxRotations == 1        \* refresh-token rotations by the client library
MaxSyncs == 1            \* calls of async_sync_states
MaxMigrations == 2       \* runs of async_migrate_entry on one entry
MaxResumes == 1          \* calls of async_resume_all_schedules

\* -------------------------------------------------------- program constants
OPTIMISTIC_GRACE_PERIOD_S == 30
PROTECTION_MODE_TEMP == 5
DEFAULT_HEAT_TEMP == 25
SECONDS_PER_HOUR == 3600
DEFAULT_SCAN_INTERVAL == 3600
DEFAULT_SLOW_POLL_INTERVAL == 24
\* imported by __init__.py from const; any value serves that no entry holds
DEFAULT_PRESENCE_POLL_INTERVAL == 120
\* the version async_migrate_entry migrates to
CURRENT_VERSION == 7

\* ---------------------------------------------------------- input domains
Zones == {1, 2}
Devices == {"d1"}
VendorZoneLists == {{}, {1}}
VendorDeviceLists == {{}, {"d1"}}
Presences == {"HOME", "AWAY"}
Temps == {PROTECTION_MODE_TEMP, DEFAULT_HEAT_TEMP}
ShortTicks == {15}
LongTicks == {1800}
SlowPollHours == {1}
SyncTypes == {{"presence"}, {"zone"}, {"presence", "zone"}}
ScanIntervals == {DEFAULT_SCAN_INTERVAL}
\* response headers: q is the q= field of RateLimit-Policy, r the r= field of
\* RateLimit, -1 when the field is absent
Headers == {[q |-> -1, r |-> -1], [q |-> 1000, r |-> 998],
            [q |-> 1000, r |-> 987], [q |-> 1000, r |-> -1],
            [q |-> 1000, r |-> 0]}
VendorZoneStates == {[z \in Zones |-> FALSE], [z \in Zones |-> TRUE]}

VARIABLES
    now,                  \* time.monotonic()
    optimistic_zones,     \* coordinator.optimistic_zones: zone id -> [overlay, time]
    optimistic_presence,  \* coordinator.optimistic_presence ("None" when unset)
    optimistic_time,      \* coordinator.optimistic_time
    q_pending,            \* command queue: key -> newest command not yet started
    q_running,            \* command queue: key -> command whose call is in flight
    dm_zones_meta,        \* data_manager.zones_meta (set of zone ids)
    dm_devices_meta,      \* data_manager.devices_meta (set of serials)
    last_slow_poll,       \* data_manager._last_slow_poll
    slow_poll_seconds,    \* data_manager._slow_poll_seconds
    zones_meta,           \* coordinator.zones_meta
    devices_meta,         \* coordinator.devices_meta
    data,                 \* coordinator.data: << >> before the first success, else <<record>>
    last_update_success,  \* coordinator.last_update_success
    update_interval,      \* coordinator.update_interval, in seconds
    refresh_token,        \* coordinator._refresh_token
    entry_data,           \* config_entry.data: key -> value
    entry_version,        \* config_entry.version
    ent_reg,              \* entity registry: the entities of the config entry
    tado_token,           \* client.refresh_token
    RATE_LIMIT_DATA,      \* helpers.patch.RATE_LIMIT_DATA
    pc,                   \* position of the refresh task
    cyc,                  \* locals of the refresh cycle in flight
    sync,                 \* position and locals of async_sync_states, and what it wrote
    ops,                  \* observed: mutating operations issued so far
    qh,                   \* observed: network calls made by the command queue
    fh,                   \* observed: vendor calls and outcome of the refresh cycles
    mig,                  \* observed: runs of async_migrate_entry
    rs,                   \* observed: calls of async_resume_all_schedules
    rh                    \* observed: headers of the latest response that reported a rate limit

vars == <<now, optimistic_zones, optimistic_presence, optimistic_time,
          q_pending, q_running, dm_zones_meta, dm_devices_meta, last_slow_poll,
          slow_poll_seconds, zones_meta, devices_meta, data, last_update_success,
          update_interval,
          refresh_token, entry_data, tado_token, RATE_LIMIT_DATA, pc, cyc,
          sync, entry_version, ent_reg, mig, rs, ops, qh, fh, rh>>

ovars == <<optimistic_zones, optimistic_presence, optimistic_time>>
qvars == <<q_pending, q_running>>
dmvars == <<dm_zones_meta, dm_devices_meta, last_slow_poll, slow_poll_seconds>>
covars == <<zones_meta, devices_meta, data, last_update_success,
            update_interval>>
tokvars == <<refresh_token, entry_data, tado_token>>

cycvars == <<pc, cyc, fh>>
\* what only the host's entry points touch: the migration and the resume
\* service
hostvars == <<entry_version, ent_reg, mig, rs>>

\* ----------------------------------------------------------------- values
\* An optional value is a sequence: << >> is None, <<v>> is the value v.
None == << >>
Some(v) == <<v>>

\* f"zone_{zone_id}"
ZoneKey(zone_id) == "zone_" \o ToString(zone_id)
Keys == {ZoneKey(z) : z \in Zones} \cup {"presence"}

\* functools.partial(self._tado.<fn>, ...): the vendor call and its arguments
Cmd(fn, zone, temp, presence) ==
    [fn |-> fn, zone |-> zone, temp |-> temp, presence |-> presence]
NoCmd == Cmd("none", 0, 0, "-")
NoEntry == [category |-> "none", action |-> NoCmd]

\* dict assignment d[k] = v
DictSet(d, k, v) == [x \in (DOMAIN d) \cup {k} |-> IF x = k THEN v ELSE d[x]]
\* dict restricted to the keys in S
DictKeep(d, S) == [x \in (DOMAIN d) \cap S |-> d[x]]

\* -------------------------------------------- helpers/parsers.py, patch.py
\* parse_ratelimit_headers: None when neither field is found, otherwise a
\* RateLimit whose missing field is 0.
parse_ratelimit_headers(h) ==
    IF h.q = -1 /\ h.r = -1
    THEN None
    ELSE Some([limit |-> IF h.q = -1 THEN 0 ELSE h.q,
               remaining |-> IF h.r = -1 THEN 0 ELSE h.r])

\* a capture that never lets the remaining budget go up again
CaptureRateLimit_keep_lower(rld, h) ==
    LET rl == parse_ratelimit_headers(h)
    IN  IF rl # None
        THEN [limit |-> rl[1].limit,
              remaining |-> IF rld.limit # 0 /\ rld.remaining < rl[1].remaining
                            THEN rld.remaining
                            ELSE rl[1].remaining]
        ELSE rld

\* robust_patched_request, the part run on every response that arrives
CaptureRateLimit(rld, h) ==
    LET rl == parse_ratelimit_headers(h)
    IN  IF rl # None
        THEN [limit |-> rl[1].limit, remaining |-> rl[1].remaining]
        ELSE rld

\* A vendor call ends in one of: a 2xx response, an error-status response
\* (headers are read before raise_for_status), a 401 response, or a timeout
\* (no response).
Outcomes == {"ok", "http_error", "auth_error", "timeout"}

\* the exception a failed vendor call raises: TimeoutError becomes
\* TadoConnectionError, an error status is classified by the client library's
\* check_request_status (401: TadoAuthenticationError)
RaisedBy(outcome) ==
    CASE outcome = "timeout" -> "TadoConnectionError"
      [] outcome = "auth_error" -> "TadoAuthenticationError"
      [] OTHER -> "TadoError"

\* the client library's exception classes, all derived from TadoError
TadoErrors == {"TadoError", "TadoConnectionError", "TadoAuthenticationError"}

\* a capture that runs after the status check, on 2xx responses only
AfterCall_after_status_check(rld, outcome, h) ==
    IF outcome = "ok" THEN CaptureRateLimit(rld, h) ELSE rld

\* the snapshot after a vendor call: every response that arrives passes the
\* capture before its status is checked, a timeout brings no response
AfterCall(rld, outcome, h) ==
    IF outcome = "timeout" THEN rld ELSE CaptureRateLimit(rld, h)

\* --------------------------------------------------- the optimistic overlay
\* _cleanup_optimistic clearing the presence prediction whatever its age
CleanupPresence_always(t) == "None"

\* _cleanup_optimistic, presence part
CleanupPresence(t) ==
    IF (t - optimistic_time) > OPTIMISTIC_GRACE_PERIOD_S
    THEN "None"
    ELSE optimistic_presence

\* _cleanup_optimistic whose zone loop deletes nothing
CleanupZones_keep_all(t) == optimistic_zones

\* _cleanup_optimistic deleting a zone entry as soon as its age reaches the
\* grace period
CleanupZones_at_boundary(t) ==
    LET to_delete == {z_id \in DOMAIN optimistic_zones :
                        (t - optimistic_zones[z_id].time) >= OPTIMISTIC_GRACE_PERIOD_S}
    IN  DictKeep(optimistic_zones, (DOMAIN optimistic_zones) \ to_delete)

\* _cleanup_optimistic, zone part
CleanupZones(t) ==
    LET to_delete == {z_id \in DOMAIN optimistic_zones :
                        (t - optimistic_zones[z_id].time) > OPTIMISTIC_GRACE_PERIOD_S}
    IN  DictKeep(optimistic_zones, (DOMAIN optimistic_zones) \ to_delete)

\* resolve(scope, key) for a zone: the prediction while it is unexpired
ResolveZone(zone_id) ==
    IF zone_id \in DOMAIN optimistic_zones
       /\ (now - optimistic_zones[zone_id].time) < OPTIMISTIC_GRACE_PERIOD_S
    THEN Some(optimistic_zones[zone_id].overlay)
    ELSE None

\* resolve(scope, key) for the home scope (presence)
ResolvePresence ==
    IF optimistic_presence # "None"
       /\ (now - optimistic_time) < OPTIMISTIC_GRACE_PERIOD_S
    THEN Some(optimistic_presence)
    ELSE None

\* _get_optimistic_value without the "is not None" test: not bool(None)
ScheduleOptimisticValue_no_none_test(zone_id) ==
    LET opt == ResolveZone(zone_id)
    IN  IF opt # None THEN Some(~opt[1]) ELSE Some(TRUE)

\* TadoGenericSwitchMixin._get_optimistic_value for the "schedule" switch:
\* no optimistic_value_map, is_inverted = True
ScheduleOptimisticValue(zone_id) ==
    LET opt == ResolveZone(zone_id)
    IN  IF opt # None THEN Some(~opt[1]) ELSE None

\* TadoGenericSwitchMixin._get_optimistic_value for the "away_mode" switch:
\* optimistic_value_map = {"AWAY": True, "HOME": False}
AwayOptimisticValue ==
    LET opt == ResolvePresence
    IN  IF opt # None THEN Some(opt[1] = "AWAY") ELSE None

\* value_fn of the "schedule" switch: not overlay_active of the zone's state
ScheduleActualValue(zone_id) == ~data[1].zone_states[zone_id]

\* is_on of the "schedule" switch: optimistic value first, else the actual one
ScheduleIsOn(zone_id) ==
    LET opt == ScheduleOptimisticValue(zone_id)
    IN  IF opt # None THEN opt[1] ELSE ScheduleActualValue(zone_id)

\* ------------------------------------------------------------ observations
\* the logical target of a vendor command: the zone it acts on, or presence
TargetOf(action) ==
    IF action.fn = "set_presence" THEN "presence" ELSE ZoneKey(action.zone)

\* a response arrived: remember its headers if they report a rate limit
NoteResponse(outcome, h) ==
    rh' = IF outcome # "timeout" /\ (h.q # -1 \/ h.r # -1) THEN Some(h) ELSE rh

\* ------------------------------------------------------------ command queue
\* queue_action(key, category, action): the newest command of a key replaces
\* the one still waiting for that key
queue_action(key, category, action) ==
    /\ q_pending' = [q_pending EXCEPT ![key] =
                        [category |-> category, action |-> action]]
    /\ UNCHANGED q_running

\* the worker starts the network call of the waiting command of a key,
\* one call in flight per key
QueueStart(key) ==
    /\ q_pending[key] # NoEntry
    /\ q_running[key] = NoEntry
    /\ q_running' = [q_running EXCEPT ![key] = q_pending[key]]
    /\ q_pending' = [q_pending EXCEPT ![key] = NoEntry]
    /\ LET a == q_pending[key].action
           g == TargetOf(a)
       IN  qh' = [qh EXCEPT !.waiting[g] = 0,
                            !.ncalls[g] = @ + 1,
                            !.last[g] = a,
                            !.served[g] = qh.waiting[g]]
    /\ UNCHANGED <<now, sync, hostvars, ovars, dmvars, covars, tokvars, RATE_LIMIT_DATA,
                   cycvars, ops, rh>>

\* the network call of a key ends; its response passes the patched request
QueueDone(key, outcome, h) ==
    /\ q_running[key] # NoEntry
    /\ q_running' = [q_running EXCEPT ![key] = NoEntry]
    /\ RATE_LIMIT_DATA' = AfterCall(RATE_LIMIT_DATA, outcome, h)
    /\ NoteResponse(outcome, h)
    /\ LET g == TargetOf(q_running[key].action)
       IN  qh' = [qh EXCEPT !.done[g] = @ + 1,
                            !.failed[g] = IF outcome = "ok" THEN @ ELSE @ + 1]
    /\ UNCHANGED <<now, sync, hostvars, ovars, q_pending, dmvars, covars, tokvars,
                   cycvars, ops>>

\* ------------------------------------------------------ mutating operations
SetupDone == data # None

\* async_update_listeners: the listeners run and read the coordinator as it
\* is at that point of the operation: the overlay and the waiting commands
async_update_listeners(oz, op, ot, qp) ==
    [zones |-> oz, presence |-> op, time |-> ot, pending |-> qp]

\* record of the operation just issued: what was asked for which target,
\* and whether the target's earlier command was still waiting or in flight
NoteOp(fn, zone_id, action, shown) ==
    LET g == TargetOf(action)
        unfinished == \E k \in Keys :
                         \/ /\ q_pending[k] # NoEntry
                            /\ TargetOf(q_pending[k].action) = g
                         \/ /\ q_running[k] # NoEntry
                            /\ TargetOf(q_running[k].action) = g
    IN  /\ ops' = [n |-> ops.n + 1,
                   last |-> action,
                   notified |-> ops.notified + 1,
                   shown |-> shown,
                   zhist |-> IF zone_id \in Zones
                             THEN [ops.zhist EXCEPT ![zone_id] =
                                     [prev |-> @.last, prev_time |-> @.time,
                                      last |-> fn, time |-> now,
                                      prev_unfinished |-> unfinished]]
                             ELSE ops.zhist]
        /\ qh' = [qh EXCEPT !.waiting[g] = @ + 1, !.newest[g] = action]

\* async_set_zone_auto writing the overlay flag of the heat operation
async_set_zone_auto_overlay_on(zone_id) ==
    /\ SetupDone
    /\ ops.n < MaxOps
    /\ optimistic_zones' =
          DictSet(optimistic_zones, zone_id, [overlay |-> TRUE, time |-> now])
    /\ queue_action(ZoneKey(zone_id), "zone",
                    Cmd("reset_zone_overlay", zone_id, 0, "-"))
    /\ NoteOp("auto", zone_id, Cmd("reset_zone_overlay", zone_id, 0, "-"),
              async_update_listeners(optimistic_zones', optimistic_presence,
                                     optimistic_time, q_pending))
    /\ UNCHANGED <<now, sync, hostvars, optimistic_presence, optimistic_time, dmvars, covars,
                   tokvars, RATE_LIMIT_DATA, cycvars, rh>>

\* async_set_zone_auto with the command queued under the presence key
async_set_zone_auto_presence_key(zone_id) ==
    /\ SetupDone
    /\ ops.n < MaxOps
    /\ optimistic_zones' =
          DictSet(optimistic_zones, zone_id, [overlay |-> FALSE, time |-> now])
    /\ queue_action("presence", "zone",
                    Cmd("reset_zone_overlay", zone_id, 0, "-"))
    /\ NoteOp("auto", zone_id, Cmd("reset_zone_overlay", zone_id, 0, "-"),
              async_update_listeners(optimistic_zones', optimistic_presence,
                                     optimistic_time, q_pending))
    /\ UNCHANGED <<now, sync, hostvars, optimistic_presence, optimistic_time, dmvars, covars,
                   tokvars, RATE_LIMIT_DATA, cycvars, rh>>

async_set_zone_auto(zone_id) ==
    /\ SetupDone
    /\ ops.n < MaxOps
    /\ optimistic_zones' =
          DictSet(optimistic_zones, zone_id, [overlay |-> FALSE, time |-> now])
    /\ queue_action(ZoneKey(zone_id), "zone",
                    Cmd("reset_zone_overlay", zone_id, 0, "-"))
    /\ NoteOp("auto", zone_id, Cmd("reset_zone_overlay", zone_id, 0, "-"),
              async_update_listeners(optimistic_zones', optimistic_presence,
                                     optimistic_time, q_pending))
    /\ UNCHANGED <<now, sync, hostvars, optimistic_presence, optimistic_time, dmvars, covars,
                   tokvars, RATE_LIMIT_DATA, cycvars, rh>>

\* async_set_zone_heat keeping the timestamp of an entry that already exists
async_set_zone_heat_keep_time(zone_id, temp) ==
    /\ SetupDone
    /\ ops.n < MaxOps
    /\ optimistic_zones' =
          DictSet(optimistic_zones, zone_id,
                  [overlay |-> TRUE,
                   time |-> IF zone_id \in DOMAIN optimistic_zones
                            THEN optimistic_zones[zone_id].time
                            ELSE now])
    /\ queue_action(ZoneKey(zone_id), "zone",
                    Cmd("set_zone_overlay", zone_id, temp, "-"))
    /\ NoteOp("heat", zone_id, Cmd("set_zone_overlay", zone_id, temp, "-"),
              async_update_listeners(optimistic_zones', optimistic_presence,
                                     optimistic_time, q_pending))
    /\ UNCHANGED <<now, sync, hostvars, optimistic_presence, optimistic_time, dmvars, covars,
                   tokvars, RATE_LIMIT_DATA, cycvars, rh>>

\* async_set_zone_heat enqueuing every zone's command under the key of zone 1
async_set_zone_heat_shared_key(zone_id, temp) ==
    /\ SetupDone
    /\ ops.n < MaxOps
    /\ optimistic_zones' =
          DictSet(optimistic_zones, zone_id, [overlay |-> TRUE, time |-> now])
    /\ queue_action(ZoneKey(1), "zone",
                    Cmd("set_zone_overlay", zone_id, temp, "-"))
    /\ NoteOp("heat", zone_id, Cmd("set_zone_overlay", zone_id, temp, "-"),
              async_update_listeners(optimistic_zones', optimistic_presence,
                                     optimistic_time, q_pending))
    /\ UNCHANGED <<now, sync, hostvars, optimistic_presence, optimistic_time, dmvars,
                   covars, tokvars, RATE_LIMIT_DATA, cycvars, rh>>

\* async_set_zone_heat with the command queued under a key of its own instead
\* of the zone's key
async_set_zone_heat_own_key(zone_id, temp) ==
    /\ SetupDone
    /\ ops.n < MaxOps
    /\ optimistic_zones' =
          DictSet(optimistic_zones, zone_id, [overlay |-> TRUE, time |-> now])
    /\ queue_action("presence", "zone",
                    Cmd("set_zone_overlay", zone_id, temp, "-"))
    /\ NoteOp("heat", zone_id, Cmd("set_zone_overlay", zone_id, temp, "-"),
              async_update_listeners(optimistic_zones', optimistic_presence,
                                     optimistic_time, q_pending))
    /\ UNCHANGED <<now, sync, hostvars, optimistic_presence, optimistic_time, dmvars, covars,
                   tokvars, RATE_LIMIT_DATA, cycvars, rh>>

\* async_set_zone_heat that cancels the call in flight for its zone
async_set_zone_heat_cancels_running(zone_id, temp) ==
    /\ SetupDone
    /\ ops.n < MaxOps
    /\ optimistic_zones' =
          DictSet(optimistic_zones, zone_id, [overlay |-> TRUE, time |-> now])
    /\ q_pending' = [q_pending EXCEPT ![ZoneKey(zone_id)] =
                        [category |-> "zone",
                         action |-> Cmd("set_zone_overlay", zone_id, temp, "-")]]
    /\ q_running' = [q_running EXCEPT ![ZoneKey(zone_id)] = NoEntry]
    /\ NoteOp("heat", zone_id, Cmd("set_zone_overlay", zone_id, temp, "-"),
              async_update_listeners(optimistic_zones', optimistic_presence,
                                     optimistic_time, q_pending))
    /\ UNCHANGED <<now, sync, hostvars, optimistic_presence, optimistic_time, dmvars, covars,
                   tokvars, RATE_LIMIT_DATA, cycvars, rh>>

\* async_set_zone_heat that awaits the call in flight for its zone before it
\* returns
async_set_zone_heat_awaits_call(zone_id, temp) ==
    /\ SetupDone
    /\ ops.n < MaxOps
    /\ q_running[ZoneKey(zone_id)] = NoEntry
    /\ optimistic_zones' =
          DictSet(optimistic_zones, zone_id, [overlay |-> TRUE, time |-> now])
    /\ queue_action(ZoneKey(zone_id), "zone",
                    Cmd("set_zone_overlay", zone_id, temp, "-"))
    /\ NoteOp("heat", zone_id, Cmd("set_zone_overlay", zone_id, temp, "-"),
              async_update_listeners(optimistic_zones', optimistic_presence,
                                     optimistic_time, q_pending))
    /\ UNCHANGED <<now, sync, hostvars, optimistic_presence, optimistic_time, dmvars, covars,
                   tokvars, RATE_LIMIT_DATA, cycvars, rh>>

async_set_zone_heat(zone_id, temp) ==
    /\ SetupDone
    /\ ops.n < MaxOps
    /\ optimistic_zones' =
          DictSet(optimistic_zones, zone_id, [overlay |-> TRUE, time |-> now])
    /\ queue_action(ZoneKey(zone_id), "zone",
                    Cmd("set_zone_overlay", zone_id, temp, "-"))
    /\ NoteOp("heat", zone_id, Cmd("set_zone_overlay", zone_id, temp, "-"),
              async_update_listeners(optimistic_zones', optimistic_presence,
                                     optimistic_time, q_pending))
    /\ UNCHANGED <<now, sync, hostvars, optimistic_presence, optimistic_time, dmvars, covars,
                   tokvars, RATE_LIMIT_DATA, cycvars, rh>>

\* async_set_presence_debounced with the command queued before the listeners
\* are notified
async_set_presence_debounced_queue_first(presence) ==
    /\ SetupDone
    /\ ops.n < MaxOps
    /\ optimistic_presence' = presence
    /\ optimistic_time' = now
    /\ queue_action("presence", "presence", Cmd("set_presence", 0, 0, presence))
    /\ NoteOp("presence", 0, Cmd("set_presence", 0, 0, presence),
              async_update_listeners(optimistic_zones, optimistic_presence',
                                     optimistic_time', q_pending'))
    /\ UNCHANGED <<now, sync, hostvars, optimistic_zones, dmvars, covars, tokvars,
                   RATE_LIMIT_DATA, cycvars, rh>>

async_set_presence_debounced(presence) ==
    /\ SetupDone
    /\ ops.n < MaxOps
    /\ optimistic_presence' = presence
    /\ optimistic_time' = now
    /\ queue_action("presence", "presence", Cmd("set_presence", 0, 0, presence))
    /\ NoteOp("presence", 0, Cmd("set_presence", 0, 0, presence),
              async_update_listeners(optimistic_zones, optimistic_presence',
                                     optimistic_time', q_pending))
    /\ UNCHANGED <<now, sync, hostvars, optimistic_zones, dmvars, covars, tokvars,
                   RATE_LIMIT_DATA, cycvars, rh>>

\* --------------------------------------------------------------- the clock
Tick(d, cap) ==
    /\ now + d <= cap
    /\ now' = now + d
    /\ UNCHANGED <<sync, hostvars, ovars, qvars, dmvars, covars, tokvars,
                   RATE_LIMIT_DATA, cycvars, ops, qh, rh>>

\* ------------------------------------------------------- the refresh cycle
\* a slow track that runs only when no zone metadata is held
SlowTrackDue_only_when_empty(zm, current_time) == zm = {}

\* a slow track that runs only when the last slow poll is older than the
\* interval, whether or not zone metadata is held
SlowTrackDue_only_when_old(zm, current_time) ==
    (current_time - last_slow_poll) > slow_poll_seconds

\* fetch_full_update up to its first await: the slow track runs when no zone
\* metadata is held or the last slow poll is older than the interval
SlowTrackDue(zm, current_time) ==
    \/ zm = {}
    \/ (current_time - last_slow_poll) > slow_poll_seconds

\* locals of fetch_full_update and the cycle's starting conditions, out of
\* scope while no cycle is in flight
IdleCyc == [current_time |-> 0, zones |-> {}, home_state |-> "-"]
IdleCache0 == [zones |-> {}, devices |-> {}, last |-> 0]

\* a refresh cycle begins: _async_update_data calls fetch_full_update, which
\* reads the clock and issues its first vendor call
BeginCycle(zm, st) ==
    /\ pc' = IF SlowTrackDue(zm, now) THEN "get_zones" ELSE "get_home_state"
    /\ cyc' = [current_time |-> now, zones |-> {}, home_state |-> "-"]
    /\ fh' = [fh EXCEPT !.n = @ + 1,
                        !.stored = st,
                        !.calls = << >>,
                        !.result = "running",
                        !.cause = "none",
                        !.report = "none",
                        !.held = (st = "yes"),
                        !.age = now - last_slow_poll,
                        !.cache0 = [zones |-> zm, devices |-> dm_devices_meta,
                                    last |-> last_slow_poll]]

\* the timer of the update coordinator fires
TimerRefresh ==
    /\ pc = "idle"
    /\ fh.n < MaxCycles
    /\ BeginCycle(dm_zones_meta, fh.stored)
    /\ UNCHANGED <<now, sync, hostvars, ovars, qvars, dmvars, covars, tokvars, RATE_LIMIT_DATA,
                   ops, qh, rh>>

\* async_manual_poll: invalidate_cache, then async_refresh; the refresh
\* starts at once when no cycle is in flight and otherwise waits for it
async_manual_poll ==
    /\ SetupDone
    /\ fh.n < MaxCycles
    /\ dm_zones_meta' = {}
    /\ IF pc = "idle"
       THEN BeginCycle({}, "no")
       ELSE /\ fh' = [fh EXCEPT !.stored = "no", !.cache0.zones = {}]
            /\ UNCHANGED <<pc, cyc>>
    /\ UNCHANGED <<now, sync, hostvars, ovars, qvars, dm_devices_meta, last_slow_poll,
                   slow_poll_seconds, covars, tokvars, RATE_LIMIT_DATA, ops, qh,
                   rh>>

\* _async_update_data's only except clause: a TadoError of any class is
\* re-raised as UpdateFailed, anything else propagates as it is
Reported(exc) == IF exc \in TadoErrors THEN "UpdateFailed" ELSE exc

\* async_setup_entry, the handling of an exception of client.async_init():
\* TadoAuthenticationError, or any other exception whose text looks like a
\* rejected token, raises ConfigEntryAuthFailed; any other exception makes
\* the setup return False
async_setup_entry_init_error(exc, token_rejected_text) ==
    IF exc = "TadoAuthenticationError" THEN "ConfigEntryAuthFailed"
    ELSE IF token_rejected_text THEN "ConfigEntryAuthFailed"
    ELSE "return_false"

\* a token sync that writes an entry holding nothing but the token
async_update_entry_token_only(entry, token) == [refresh_token |-> token]

\* hass.config_entries.async_update_entry(entry, data={**entry.data,
\* CONF_REFRESH_TOKEN: token}): the new data of the config entry
async_update_entry(entry, token) == DictSet(entry, "refresh_token", token)

\* a failing cycle that still runs the overlay sweep
CycleFails_sweeps(call, outcome) ==
    /\ pc' = "idle"
    /\ last_update_success' = FALSE
    /\ cyc' = IdleCyc
    /\ fh' = [fh EXCEPT !.calls = Append(@, call),
                        !.result = "failed",
                        !.cause = outcome,
                        !.report = Reported(RaisedBy(outcome)),
                        !.errors = @ + 1,
                        !.sweeps = @ + 1,
                        !.stored = IF @ = "partial" THEN "failed" ELSE @,
                        !.held = FALSE, !.age = 0, !.cache0 = IdleCache0]
    /\ UNCHANGED <<zones_meta, devices_meta, data, update_interval>>

\* a failing cycle that still copies the data manager's metadata
CycleFails_copies_meta(call, outcome) ==
    /\ pc' = "idle"
    /\ last_update_success' = FALSE
    /\ cyc' = IdleCyc
    /\ fh' = [fh EXCEPT !.calls = Append(@, call),
                        !.result = "failed",
                        !.cause = outcome,
                        !.report = Reported(RaisedBy(outcome)),
                        !.errors = @ + 1,
                        !.stored = IF @ = "partial" THEN "failed" ELSE @,
                        !.held = FALSE, !.age = 0, !.cache0 = IdleCache0]
    /\ zones_meta' = dm_zones_meta
    /\ devices_meta' = dm_devices_meta
    /\ UNCHANGED <<data, update_interval>>

\* the cycle ends with TadoError -> UpdateFailed: the update coordinator
\* records the failure and keeps self.data
CycleFails(call, outcome) ==
    /\ pc' = "idle"
    /\ last_update_success' = FALSE
    /\ cyc' = IdleCyc
    /\ fh' = [fh EXCEPT !.calls = Append(@, call),
                        !.result = "failed",
                        !.cause = outcome,
                        !.report = Reported(RaisedBy(outcome)),
                        !.errors = @ + 1,
                        !.stored = IF @ = "partial" THEN "failed" ELSE @,
                        !.held = FALSE, !.age = 0, !.cache0 = IdleCache0]
    /\ UNCHANGED <<zones_meta, devices_meta, data, update_interval>>

\* get_zones whose result is put into the cache before get_devices is called
GetZonesDone_store_early(outcome, h, zones) ==
    /\ pc = "get_zones"
    /\ RATE_LIMIT_DATA' = AfterCall(RATE_LIMIT_DATA, outcome, h)
    /\ NoteResponse(outcome, h)
    /\ IF outcome = "ok"
       THEN /\ pc' = "get_devices"
            /\ cyc' = [cyc EXCEPT !.zones = zones]
            /\ dm_zones_meta' = zones
            /\ fh' = [fh EXCEPT !.calls = Append(@, "get_zones")]
            /\ UNCHANGED covars
       ELSE /\ CycleFails("get_zones", outcome)
            /\ UNCHANGED dm_zones_meta
    /\ UNCHANGED <<now, sync, hostvars, ovars, qvars, dm_devices_meta, last_slow_poll,
                   slow_poll_seconds, tokvars, ops, qh>>

\* response of get_zones
GetZonesDone(outcome, h, zones) ==
    /\ pc = "get_zones"
    /\ RATE_LIMIT_DATA' = AfterCall(RATE_LIMIT_DATA, outcome, h)
    /\ NoteResponse(outcome, h)
    /\ IF outcome = "ok"
       THEN /\ pc' = "get_devices"
            /\ cyc' = [cyc EXCEPT !.zones = zones]
            /\ fh' = [fh EXCEPT !.calls = Append(@, "get_zones")]
            /\ UNCHANGED covars
       ELSE CycleFails("get_zones", outcome)
    /\ UNCHANGED <<now, sync, hostvars, ovars, qvars, dmvars, tokvars, ops, qh>>

\* response of get_devices; on success the slow track stores its results
GetDevicesDone(outcome, h, devices) ==
    /\ pc = "get_devices"
    /\ RATE_LIMIT_DATA' = AfterCall(RATE_LIMIT_DATA, outcome, h)
    /\ NoteResponse(outcome, h)
    /\ IF outcome = "ok"
       THEN /\ pc' = "get_home_state"
            /\ dm_zones_meta' = cyc.zones
            /\ dm_devices_meta' = devices
            /\ last_slow_poll' = cyc.current_time
            /\ fh' = [fh EXCEPT !.calls = Append(@, "get_devices"),
                                !.stored = "partial"]
            /\ UNCHANGED <<cyc, covars>>
       ELSE /\ CycleFails("get_devices", outcome)
            /\ UNCHANGED <<dm_zones_meta, dm_devices_meta, last_slow_poll>>
    /\ UNCHANGED <<now, sync, hostvars, ovars, qvars, slow_poll_seconds, tokvars, ops, qh>>

\* response of get_home_state
GetHomeStateDone(outcome, h, presence) ==
    /\ pc = "get_home_state"
    /\ RATE_LIMIT_DATA' = AfterCall(RATE_LIMIT_DATA, outcome, h)
    /\ NoteResponse(outcome, h)
    /\ IF outcome = "ok"
       THEN /\ pc' = "get_zone_states"
            /\ cyc' = [cyc EXCEPT !.home_state = presence]
            /\ fh' = [fh EXCEPT !.calls = Append(@, "get_home_state")]
            /\ UNCHANGED covars
       ELSE CycleFails("get_home_state", outcome)
    /\ UNCHANGED <<now, sync, hostvars, ovars, qvars, dmvars, tokvars, ops, qh>>

\* the rate_limit entry injected into the data of a cycle
InjectedRateLimit(rld) == [limit |-> rld.limit, remaining |-> rld.remaining]

\* the update coordinator stores the data a cycle returned and runs the
\* listeners, which read the overlay and the data as they are at that point
Publish(oz, op, d) == [zones |-> oz, presence |-> op, data |-> d]

\* a cycle that hands the fetched data to the listeners before the sweep and
\* before the rate limit is injected
GetZoneStatesDone_publish_first(outcome, h, zone_states) ==
    /\ pc = "get_zone_states"
    /\ RATE_LIMIT_DATA' = AfterCall(RATE_LIMIT_DATA, outcome, h)
    /\ NoteResponse(outcome, h)
    /\ IF outcome = "ok"
       THEN /\ pc' = "idle"
            /\ zones_meta' = dm_zones_meta
            /\ devices_meta' = dm_devices_meta
            /\ IF tado_token # refresh_token
               THEN /\ refresh_token' = tado_token
                    /\ entry_data' = async_update_entry(entry_data, tado_token)
               ELSE UNCHANGED <<refresh_token, entry_data>>
            /\ optimistic_presence' = CleanupPresence(now)
            /\ optimistic_zones' = CleanupZones(now)
            /\ data' = Some([home_state |-> cyc.home_state,
                             zone_states |-> zone_states,
                             zones |-> dm_zones_meta,
                             devices |-> dm_devices_meta,
                             rate_limit |-> InjectedRateLimit(RATE_LIMIT_DATA')])
            /\ last_update_success' = TRUE
            /\ UNCHANGED update_interval
            /\ fh' = [fh EXCEPT !.calls = Append(@, "get_zone_states"),
                                !.result = "ok",
                                !.sweeps = @ + 1,
                                !.stored = IF @ = "partial" THEN "yes" ELSE @,
                                !.held = FALSE, !.age = 0, !.cache0 = IdleCache0,
                                !.shown = Publish(optimistic_zones,
                                                  optimistic_presence,
                                                  Some([home_state |-> cyc.home_state,
                                                        zone_states |-> zone_states,
                                                        zones |-> dm_zones_meta,
                                                        devices |-> dm_devices_meta,
                                                        rate_limit |-> [limit |-> 0,
                                                                        remaining |-> 0]]))]
            /\ cyc' = IdleCyc
       ELSE /\ CycleFails("get_zone_states", outcome)
            /\ UNCHANGED <<optimistic_presence, optimistic_zones,
                           refresh_token, entry_data>>
    /\ UNCHANGED <<now, sync, hostvars, optimistic_time, qvars, dmvars, tado_token, ops, qh>>

\* response of get_zone_states; on success fetch_full_update returns and
\* _async_update_data runs to its end without another await: metadata copy,
\* token sync, overlay sweep, rate-limit injection; the update coordinator
\* then stores the returned data
GetZoneStatesDone(outcome, h, zone_states) ==
    /\ pc = "get_zone_states"
    /\ RATE_LIMIT_DATA' = AfterCall(RATE_LIMIT_DATA, outcome, h)
    /\ NoteResponse(outcome, h)
    /\ IF outcome = "ok"
       THEN /\ pc' = "idle"
            /\ zones_meta' = dm_zones_meta
            /\ devices_meta' = dm_devices_meta
            /\ IF tado_token # refresh_token
               THEN /\ refresh_token' = tado_token
                    /\ entry_data' = async_update_entry(entry_data, tado_token)
               ELSE UNCHANGED <<refresh_token, entry_data>>
            /\ optimistic_presence' = CleanupPresence(now)
            /\ optimistic_zones' = CleanupZones(now)
            /\ data' = Some([home_state |-> cyc.home_state,
                             zone_states |-> zone_states,
                             zones |-> dm_zones_meta,
                             devices |-> dm_devices_meta,
                             rate_limit |-> InjectedRateLimit(RATE_LIMIT_DATA')])
            /\ last_update_success' = TRUE
            /\ UNCHANGED update_interval
            /\ fh' = [fh EXCEPT !.calls = Append(@, "get_zone_states"),
                                !.result = "ok",
                                !.sweeps = @ + 1,
                                !.stored = IF @ = "partial" THEN "yes" ELSE @,
                                !.held = FALSE, !.age = 0, !.cache0 = IdleCache0,
                                !.shown = Publish(optimistic_zones',
                                                  optimistic_presence', data')]
            /\ cyc' = IdleCyc
       ELSE /\ CycleFails("get_zone_states", outcome)
            /\ UNCHANGED <<optimistic_presence, optimistic_zones,
                           refresh_token, entry_data>>
    /\ UNCHANGED <<now, sync, hostvars, optimistic_time, qvars, dmvars, tado_token, ops, qh>>

\* the client library rotates the refresh token while authenticating
RotateToken ==
    /\ tado_token < MaxRotations
    /\ tado_token' = tado_token + 1
    /\ UNCHANGED <<now, sync, hostvars, ovars, qvars, dmvars, covars, refresh_token,
                   entry_data, RATE_LIMIT_DATA, cycvars, ops, qh, rh>>

\* --------------------------------------------------- async_sync_states
\* no async_sync_states is running; cycle and home_state remember the home
\* state it wrote last and the refresh cycle that was waiting for its zone
\* states at that moment (0: none)
IdleSync == [pc |-> "idle", types |-> {}, n |-> 0, result |-> "none",
             cycle |-> 0, home_state |-> "-"]

\* update_rate_limit_local(silent=False): the rate_limit key of self.data is
\* set from RATE_LIMIT_DATA
update_rate_limit_local(d, rld) ==
    Some([d[1] EXCEPT !.rate_limit = InjectedRateLimit(rld)])

\* async_sync_states(types) up to its first await
async_sync_states(types) ==
    /\ SetupDone
    /\ sync.pc = "idle"
    /\ sync.n < MaxSyncs
    /\ types # {}
    /\ sync' = [sync EXCEPT !.pc = IF "presence" \in types
                                   THEN "get_home_state"
                                   ELSE "get_zone_states",
                            !.types = types,
                            !.n = @ + 1,
                            !.result = "running"]
    /\ UNCHANGED <<now, hostvars, ovars, qvars, dmvars, covars, tokvars, RATE_LIMIT_DATA,
                   cycvars, ops, qh, rh>>

\* response of async_sync_states' get_home_state: the home state is written
\* into self.data as it is now; without "zone" the operation ends with
\* update_rate_limit_local; an exception ends it with nothing written
SyncHomeStateDone(outcome, h, presence) ==
    /\ sync.pc = "get_home_state"
    /\ RATE_LIMIT_DATA' = AfterCall(RATE_LIMIT_DATA, outcome, h)
    /\ NoteResponse(outcome, h)
    /\ IF outcome = "ok"
       THEN LET written == Some([data[1] EXCEPT !.home_state = presence])
            IN  /\ data' = IF "zone" \in sync.types
                           THEN written
                           ELSE update_rate_limit_local(written,
                                                        RATE_LIMIT_DATA')
                /\ sync' = [sync EXCEPT
                              !.pc = IF "zone" \in sync.types
                                     THEN "get_zone_states" ELSE "idle",
                              !.result = IF "zone" \in sync.types
                                         THEN "running" ELSE "ok",
                              !.cycle = IF pc = "get_zone_states"
                                        THEN fh.n ELSE 0,
                              !.home_state = presence]
       ELSE /\ sync' = [sync EXCEPT !.pc = "idle", !.result = "failed"]
            /\ UNCHANGED data
    /\ UNCHANGED <<now, hostvars, ovars, qvars, dmvars, zones_meta, devices_meta,
                   last_update_success, update_interval, tokvars, cycvars,
                   ops, qh>>

\* response of async_sync_states' get_zone_states, followed by
\* update_rate_limit_local
SyncZoneStatesDone(outcome, h, zone_states) ==
    /\ sync.pc = "get_zone_states"
    /\ RATE_LIMIT_DATA' = AfterCall(RATE_LIMIT_DATA, outcome, h)
    /\ NoteResponse(outcome, h)
    /\ IF outcome = "ok"
       THEN /\ data' = update_rate_limit_local(
                          Some([data[1] EXCEPT !.zone_states = zone_states]),
                          RATE_LIMIT_DATA')
            /\ sync' = [sync EXCEPT !.pc = "idle", !.result = "ok"]
       ELSE /\ sync' = [sync EXCEPT !.pc = "idle", !.result = "failed"]
            /\ UNCHANGED data
    /\ UNCHANGED <<now, hostvars, ovars, qvars, dmvars, zones_meta, devices_meta,
                   last_update_success, update_interval, tokvars, cycvars,
                   ops, qh>>

\* ------------------------------------------------- async_migrate_entry
\* entry.data.get(key, default)
DictGet(d, k, default) == IF k \in DOMAIN d THEN d[k] ELSE default

\* a config entry as the migration sees it: version, data, and the entities
\* the registry holds for it
Entry(version, d, reg) == [version |-> version, data |-> d, reg |-> reg]

\* no migration has run
NoMigration == [n |-> 0, steps |-> << >>, result |-> "none",
                before |-> Entry(0, << >>, {}), orig |-> Entry(0, << >>, {})]

\* version 1 -> 2: the version is raised, nothing else
MigrateTo2(e) == [e EXCEPT !.version = 2]

\* version 2 -> 3: a scan interval of 1800 becomes 3600
MigrateTo3(e) ==
    LET new_data == IF /\ "scan_interval" \in DOMAIN e.data
                       /\ e.data["scan_interval"] = 1800
                    THEN DictSet(e.data, "scan_interval", 3600)
                    ELSE e.data
    IN  [e EXCEPT !.data = new_data, !.version = 3]

\* version 3 -> 4: the presence-poll interval is introduced with the value
\* of the scan interval, or with its default when there is none
MigrateTo4(e) ==
    LET new_data == IF "presence_poll_interval" \notin DOMAIN e.data
                    THEN DictSet(e.data, "presence_poll_interval",
                                 DictGet(e.data, "scan_interval",
                                         DEFAULT_PRESENCE_POLL_INTERVAL))
                    ELSE e.data
    IN  [e EXCEPT !.data = new_data, !.version = 4]

\* version 4 -> 5: the legacy hot-water entities are removed
MigrateTo5(e) ==
    [e EXCEPT !.reg = {x \in e.reg : ~x.hw}, !.version = 5]

\* a version-6 step that builds the entry's data from the defaults alone
MigrateTo6_defaults_only(e) ==
    [e EXCEPT !.data = [scan_interval |-> DEFAULT_SCAN_INTERVAL,
                        presence_poll_interval |-> DEFAULT_PRESENCE_POLL_INTERVAL,
                        slow_poll_interval |-> DEFAULT_SLOW_POLL_INTERVAL],
              !.version = 6]

\* version below 6 -> 6: the three intervals are reset to their defaults
MigrateTo6(e) ==
    LET new_data ==
          DictSet(DictSet(DictSet(e.data,
                                  "scan_interval", DEFAULT_SCAN_INTERVAL),
                          "presence_poll_interval",
                          DEFAULT_PRESENCE_POLL_INTERVAL),
                  "slow_poll_interval", DEFAULT_SLOW_POLL_INTERVAL)
    IN  [e EXCEPT !.data = new_data, !.version = 6]

\* a version-7 step that leaves the version where it is
MigrateTo7_keeps_version(e) ==
    [e EXCEPT !.reg = {x \in e.reg : ~(x.domain = "switch" /\ x.owd)}]

\* version below 7 -> 7: the legacy open-window switch entities are removed
MigrateTo7(e) ==
    [e EXCEPT !.reg = {x \in e.reg : ~(x.domain = "switch" /\ x.owd)},
              !.version = 7]

\* the body of async_migrate_entry: each `if` tests the version the steps
\* before it have left; the result is the entry and the steps that ran
MigrationOf(e) ==
    LET r1 == IF e.version = 1
              THEN [e |-> MigrateTo2(e), steps |-> <<2>>]
              ELSE [e |-> e, steps |-> << >>]
        r2 == IF r1.e.version = 2
              THEN [e |-> MigrateTo3(r1.e), steps |-> Append(r1.steps, 3)]
              ELSE r1
        r3 == IF r2.e.version = 3
              THEN [e |-> MigrateTo4(r2.e), steps |-> Append(r2.steps, 4)]
              ELSE r2
        r4 == IF r3.e.version = 4
              THEN [e |-> MigrateTo5(r3.e), steps |-> Append(r3.steps, 5)]
              ELSE r3
        r5 == IF r4.e.version < 6
              THEN [e |-> MigrateTo6(r4.e), steps |-> Append(r4.steps, 6)]
              ELSE r4
        r6 == IF r5.e.version < 7
              THEN [e |-> MigrateTo7(r5.e), steps |-> Append(r5.steps, 7)]
              ELSE r5
    IN  r6

\* the host calls async_migrate_entry on the entry; it has no await
async_migrate_entry ==
    /\ mig.n < MaxMigrations
    /\ LET e == Entry(entry_version, entry_data, ent_reg)
           r == MigrationOf(e)
       IN  /\ entry_version' = r.e.version
           /\ entry_data' = r.e.data
           /\ ent_reg' = r.e.reg
           /\ mig' = [n |-> mig.n + 1,
                      steps |-> r.steps,
                      result |-> "True",
                      before |-> e,
                      orig |-> IF mig.n = 0 THEN e ELSE mig.orig]
    /\ UNCHANGED <<now, sync, rs, ovars, qvars, dmvars, covars, refresh_token,
                   tado_token, RATE_LIMIT_DATA, cycvars, ops, qh, rh>>

\* --------------------------------------------- async_resume_all_schedules
\* what one call of async_set_zone_auto does to the overlay, the queue and
\* the observations; st holds them as they are when the call begins
SetZoneAutoIn(st, zone_id) ==
    LET action == Cmd("reset_zone_overlay", zone_id, 0, "-")
        g == TargetOf(action)
        oz == DictSet(st.oz, zone_id, [overlay |-> FALSE, time |-> now])
        unfinished == \E k \in Keys :
                         \/ /\ st.qp[k] # NoEntry
                            /\ TargetOf(st.qp[k].action) = g
                         \/ /\ q_running[k] # NoEntry
                            /\ TargetOf(q_running[k].action) = g
    IN  [oz |-> oz,
         qp |-> [st.qp EXCEPT ![ZoneKey(zone_id)] =
                    [category |-> "zone", action |-> action]],
         ops |-> [n |-> st.ops.n + 1,
                  last |-> action,
                  notified |-> st.ops.notified + 1,
                  shown |-> async_update_listeners(oz, optimistic_presence,
                                                   optimistic_time, st.qp),
                  zhist |-> [st.ops.zhist EXCEPT ![zone_id] =
                               [prev |-> @.last, prev_time |-> @.time,
                                last |-> "auto", time |-> now,
                                prev_unfinished |-> unfinished]]],
         qh |-> [st.qh EXCEPT !.waiting[g] = @ + 1, !.newest[g] = action]]

\* for zone_id in <zones>: await self.async_set_zone_auto(zone_id)
RECURSIVE ResumeLoop(_, _)
ResumeLoop(zones, st) ==
    IF zones = {}
    THEN st
    ELSE LET zone_id == CHOOSE z \in zones : \A y \in zones : z <= y
         IN  ResumeLoop(zones \ {zone_id}, SetZoneAutoIn(st, zone_id))

\* a resume that goes through every zone id, known to the coordinator or not
async_resume_all_schedules_every_zone ==
    /\ SetupDone
    /\ rs.n < MaxResumes
    /\ LET st == ResumeLoop(Zones, [oz |-> optimistic_zones, qp |-> q_pending,
                                    ops |-> ops, qh |-> qh])
       IN  /\ optimistic_zones' = st.oz
           /\ q_pending' = st.qp
           /\ ops' = st.ops
           /\ qh' = st.qh
    /\ rs' = [n |-> rs.n + 1]
    /\ UNCHANGED <<now, sync, entry_version, ent_reg, mig, optimistic_presence,
                   optimistic_time, q_running, dmvars, covars, tokvars,
                   RATE_LIMIT_DATA, cycvars, rh>>

\* async_resume_all_schedules: async_set_zone_auto for every zone of the
\* coordinator's zones_meta; no call in the loop suspends
async_resume_all_schedules ==
    /\ SetupDone
    /\ rs.n < MaxResumes
    /\ LET st == ResumeLoop(zones_meta, [oz |-> optimistic_zones,
                                         qp |-> q_pending,
                                         ops |-> ops, qh |-> qh])
       IN  /\ optimistic_zones' = st.oz
           /\ q_pending' = st.qp
           /\ ops' = st.ops
           /\ qh' = st.qh
    /\ rs' = [n |-> rs.n + 1]
    /\ UNCHANGED <<now, sync, entry_version, ent_reg, mig, optimistic_presence,
                   optimistic_time, q_running, dmvars, covars, tokvars,
                   RATE_LIMIT_DATA, cycvars, rh>>

\* ----------------------------------------------------------- specification
Init ==
    /\ now = 0
    /\ optimistic_zones = << >>
    /\ optimistic_presence = "None"
    /\ optimistic_time = 0
    /\ q_pending = [k \in Keys |-> NoEntry]
    /\ q_running = [k \in Keys |-> NoEntry]
    /\ dm_zones_meta = {}
    /\ dm_devices_meta = {}
    /\ last_slow_poll = 0
    /\ slow_poll_seconds \in {hrs * SECONDS_PER_HOUR : hrs \in SlowPollHours}
    /\ zones_meta = {}
    /\ devices_meta = {}
    /\ data = None
    /\ last_update_success = TRUE
    /\ update_interval \in ScanIntervals
    /\ refresh_token = 0
    /\ entry_data = [refresh_token |-> 0,
                     scan_interval |-> update_interval,
                     slow_poll_interval |-> slow_poll_seconds \div SECONDS_PER_HOUR]
    /\ tado_token = 0
    /\ RATE_LIMIT_DATA = [limit |-> 0, remaining |-> 0]
    /\ pc = "idle"
    /\ cyc = IdleCyc
    /\ sync = IdleSync
    /\ entry_version = CURRENT_VERSION
    /\ ent_reg = {}
    /\ mig = NoMigration
    /\ rs = [n |-> 0]
    /\ ops = [n |-> 0,
              last |-> NoCmd,
              notified |-> 0,
              shown |-> async_update_listeners(<< >>, "None", 0,
                                               [k \in Keys |-> NoEntry]),
              zhist |-> [z \in Zones |->
                           [prev |-> "none", prev_time |-> 0,
                            last |-> "none", time |-> 0,
                            prev_unfinished |-> FALSE]]]
    /\ qh = [waiting |-> [k \in Keys |-> 0],
             newest |-> [k \in Keys |-> NoCmd],
             ncalls |-> [k \in Keys |-> 0],
             last |-> [k \in Keys |-> NoCmd],
             served |-> [k \in Keys |-> 0],
             failed |-> [k \in Keys |-> 0],
             done |-> [k \in Keys |-> 0]]
    /\ rh = None
    /\ fh = [n |-> 0, calls |-> << >>, result |-> "none",
             cause |-> "none", report |-> "none", errors |-> 0,
             sweeps |-> 0, stored |-> "no", held |-> FALSE, age |-> 0,
             cache0 |-> IdleCache0,
             shown |-> Publish(<< >>, "None", None)]

\* The state once async_setup_entry has finished at time 0: the first refresh
\* (slow track and fast track) succeeded and the entities are set up.
InitReady ==
    /\ now = 0
    /\ optimistic_zones = << >>
    /\ optimistic_presence = "None"
    /\ optimistic_time = 0
    /\ q_pending = [k \in Keys |-> NoEntry]
    /\ q_running = [k \in Keys |-> NoEntry]
    /\ dm_zones_meta = {1}
    /\ dm_devices_meta = {"d1"}
    /\ last_slow_poll = 0
    /\ slow_poll_seconds \in {hrs * SECONDS_PER_HOUR : hrs \in SlowPollHours}
    /\ zones_meta = {1}
    /\ devices_meta = {"d1"}
    /\ \E zs \in VendorZoneStates :
          data = Some([home_state |-> "HOME", zone_states |-> zs,
                       zones |-> {1}, devices |-> {"d1"},
                       rate_limit |-> [limit |-> 0, remaining |-> 0]])
    /\ last_update_success = TRUE
    /\ update_interval \in ScanIntervals
    /\ refresh_token = 0
    /\ entry_data = [refresh_token |-> 0,
                     scan_interval |-> update_interval,
                     slow_poll_interval |-> slow_poll_seconds \div SECONDS_PER_HOUR]
    /\ tado_token = 0
    /\ RATE_LIMIT_DATA = [limit |-> 0, remaining |-> 0]
    /\ pc = "idle"
    /\ cyc = IdleCyc
    /\ sync = IdleSync
    /\ entry_version = CURRENT_VERSION
    /\ ent_reg = {}
    /\ mig = NoMigration
    /\ rs = [n |-> 0]
    /\ ops = [n |-> 0,
              last |-> NoCmd,
              notified |-> 0,
              shown |-> async_update_listeners(<< >>, "None", 0,
                                               [k \in Keys |-> NoEntry]),
              zhist |-> [z \in Zones |->
                           [prev |-> "none", prev_time |-> 0,
                            last |-> "none", time |-> 0,
                            prev_unfinished |-> FALSE]]]
    /\ qh = [waiting |-> [k \in Keys |-> 0],
             newest |-> [k \in Keys |-> NoCmd],
             ncalls |-> [k \in Keys |-> 0],
             last |-> [k \in Keys |-> NoCmd],
             served |-> [k \in Keys |-> 0],
             failed |-> [k \in Keys |-> 0],
             done |-> [k \in Keys |-> 0]]
    /\ rh = None
    /\ fh = [n |-> 1,
             calls |-> <<"get_zones", "get_devices", "get_home_state",
                         "get_zone_states">>,
             result |-> "ok", cause |-> "none", report |-> "none", errors |-> 0,
             sweeps |-> 1, stored |-> "yes", held |-> FALSE, age |-> 0,
             cache0 |-> IdleCache0,
             shown |-> Publish(<< >>, "None", data)]

\* what a stored entry can hold; Absent is a key the entry does not have
Absent == -1
IntervalKeys == {"scan_interval", "presence_poll_interval",
                 "slow_poll_interval"}
StoredVersions == 1..CURRENT_VERSION
StoredScanIntervals == {Absent, 30, 1800, 3600}
StoredPresencePolls == {Absent, 60}
StoredSlowPolls == {Absent, 1, 24}
StoredRegistries ==
    {{}, {[domain |-> "water_heater", hw |-> TRUE, owd |-> FALSE],
          [domain |-> "switch", hw |-> FALSE, owd |-> TRUE],
          [domain |-> "number", hw |-> FALSE, owd |-> TRUE],
          [domain |-> "sensor", hw |-> FALSE, owd |-> FALSE]}}

\* the data of a stored entry: the refresh token, a log level, and the
\* interval keys that are present
StoredData(scan, presence, slow) ==
    LET all == [refresh_token |-> 0, log_level |-> "INFO",
                scan_interval |-> scan, presence_poll_interval |-> presence,
                slow_poll_interval |-> slow]
    IN  DictKeep(all, {"refresh_token", "log_level"}
                         \cup {k \in IntervalKeys : all[k] # Absent})

\* The state in which the host finds a stored entry and calls
\* async_migrate_entry, before any setup.
InitMigrate ==
    /\ now = 0
    /\ optimistic_zones = << >>
    /\ optimistic_presence = "None"
    /\ optimistic_time = 0
    /\ q_pending = [k \in Keys |-> NoEntry]
    /\ q_running = [k \in Keys |-> NoEntry]
    /\ dm_zones_meta = {}
    /\ dm_devices_meta = {}
    /\ last_slow_poll = 0
    /\ slow_poll_seconds \in {hrs * SECONDS_PER_HOUR : hrs \in SlowPollHours}
    /\ zones_meta = {}
    /\ devices_meta = {}
    /\ data = None
    /\ last_update_success = TRUE
    /\ update_interval \in ScanIntervals
    /\ refresh_token = 0
    /\ \E scan \in StoredScanIntervals, presence \in StoredPresencePolls,
          slow \in StoredSlowPolls :
          entry_data = StoredData(scan, presence, slow)
    /\ tado_token = 0
    /\ RATE_LIMIT_DATA = [limit |-> 0, remaining |-> 0]
    /\ pc = "idle"
    /\ cyc = IdleCyc
    /\ sync = IdleSync
    /\ entry_version \in StoredVersions
    /\ ent_reg \in StoredRegistries
    /\ mig = NoMigration
    /\ rs = [n |-> 0]
    /\ ops = [n |-> 0,
              last |-> NoCmd,
              notified |-> 0,
              shown |-> async_update_listeners(<< >>, "None", 0,
                                               [k \in Keys |-> NoEntry]),
              zhist |-> [z \in Zones |->
                           [prev |-> "none", prev_time |-> 0,
                            last |-> "none", time |-> 0,
                            prev_unfinished |-> FALSE]]]
    /\ qh = [waiting |-> [k \in Keys |-> 0],
             newest |-> [k \in Keys |-> NoCmd],
             ncalls |-> [k \in Keys |-> 0],
             last |-> [k \in Keys |-> NoCmd],
             served |-> [k \in Keys |-> 0],
             failed |-> [k \in Keys |-> 0],
             done |-> [k \in Keys |-> 0]]
    /\ rh = None
    /\ fh = [n |-> 0, calls |-> << >>, result |-> "none",
             cause |-> "none", report |-> "none", errors |-> 0,
             sweeps |-> 0, stored |-> "no", held |-> FALSE, age |-> 0,
             cache0 |-> IdleCache0,
             shown |-> Publish(<< >>, "None", None)]

\* the vendor's answers when the run is not about them
NoHeaders == [q |-> -1, r |-> -1]
PlainOutcomes == {"ok", "timeout"}

\* Runs about the overlay: every user operation, the clock over a grace
\* period, and refresh cycles that succeed or fail.
Next ==
    \/ \E d \in ShortTicks : Tick(d, MaxShortTime)
    \/ \E z \in Zones : async_set_zone_auto(z)
    \/ \E z \in Zones : async_set_zone_heat(z, DEFAULT_HEAT_TEMP)
    \/ \E p \in Presences : async_set_presence_debounced(p)
    \/ TimerRefresh
    \/ \E o \in PlainOutcomes : GetHomeStateDone(o, NoHeaders, "HOME")
    \/ \E o \in PlainOutcomes :
          GetZoneStatesDone(o, NoHeaders, [z \in Zones |-> TRUE])

Spec == InitReady /\ [][Next]_vars

\* Runs about the command queue: every user operation and the queue worker.
NextQueue ==
    \/ \E z \in Zones : async_set_zone_auto(z)
    \/ \E z \in Zones, t \in Temps : async_set_zone_heat(z, t)
    \/ \E p \in Presences : async_set_presence_debounced(p)
    \/ \E k \in Keys : QueueStart(k)
    \/ \E k \in Keys, o \in PlainOutcomes : QueueDone(k, o, NoHeaders)

QueueSpec == InitReady /\ [][NextQueue]_vars

\* Runs about the fetch: timer and manual refresh cycles against every
\* answer of the vendor, the clock over a slow-poll interval, token rotation.
NextFetch ==
    \/ \E d \in LongTicks : Tick(d, MaxTime)
    \/ TimerRefresh
    \/ async_manual_poll
    \/ \E o \in Outcomes, zl \in VendorZoneLists : GetZonesDone(o, NoHeaders, zl)
    \/ \E o \in Outcomes, dl \in VendorDeviceLists :
          GetDevicesDone(o, NoHeaders, dl)
    \/ \E o \in Outcomes, p \in Presences : GetHomeStateDone(o, NoHeaders, p)
    \/ \E o \in Outcomes, zs \in VendorZoneStates :
          GetZoneStatesDone(o, NoHeaders, zs)
    \/ RotateToken

FetchSpec == Init /\ [][NextFetch]_vars

\* Runs about the rate-limit snapshot: responses with every header
\* combination, to refresh cycles and to queued presence commands.
NextRate ==
    \/ \E p \in Presences : async_set_presence_debounced(p)
    \/ QueueStart("presence")
    \/ \E o \in Outcomes, h \in Headers : QueueDone("presence", o, h)
    \/ TimerRefresh
    \/ \E o \in Outcomes, h \in Headers : GetZonesDone(o, h, {1})
    \/ \E o \in Outcomes, h \in Headers : GetDevicesDone(o, h, {"d1"})
    \/ \E o \in Outcomes, h \in Headers : GetHomeStateDone(o, h, "HOME")
    \/ \E o \in Outcomes, h \in Headers :
          GetZoneStatesDone(o, h, [z \in Zones |-> FALSE])

RateSpec == Init /\ [][NextRate]_vars

\* Runs about the overlay and the queue together: operations whose commands
\* succeed or fail, the clock over a grace period, and cycles that succeed
\* or fail, with and without a reported rate limit.
NextOverlay ==
    \/ \E d \in ShortTicks : Tick(d, MaxShortTime)
    \/ async_set_zone_heat(1, DEFAULT_HEAT_TEMP)
    \/ async_set_presence_debounced("AWAY")
    \/ QueueStart(ZoneKey(1))
    \/ \E o \in PlainOutcomes : QueueDone(ZoneKey(1), o, NoHeaders)
    \/ TimerRefresh
    \/ GetHomeStateDone("ok", NoHeaders, "HOME")
    \/ \E h \in {NoHeaders, [q |-> 1000, r |-> 998]} :
          GetZoneStatesDone("ok", h, [z \in Zones |-> FALSE])
    \/ GetZoneStatesDone("timeout", NoHeaders, [z \in Zones |-> FALSE])

OverlaySpec == InitReady /\ [][NextOverlay]_vars

\* ==================================================================== claims

\* Runs about the targeted refresh: async_sync_states beside refresh cycles,
\* with predictions stored and a vendor whose states change between calls.
NextSync ==
    \/ async_set_zone_heat(1, DEFAULT_HEAT_TEMP)
    \/ async_set_presence_debounced("AWAY")
    \/ \E types \in SyncTypes : async_sync_states(types)
    \/ \E o \in PlainOutcomes, p \in Presences :
          SyncHomeStateDone(o, NoHeaders, p)
    \/ \E o \in PlainOutcomes, zs \in VendorZoneStates :
          SyncZoneStatesDone(o, NoHeaders, zs)
    \/ TimerRefresh
    \/ \E o \in PlainOutcomes, p \in Presences :
          GetHomeStateDone(o, NoHeaders, p)
    \/ \E o \in PlainOutcomes, zs \in VendorZoneStates :
          GetZoneStatesDone(o, NoHeaders, zs)

SyncSpec == InitReady /\ [][NextSync]_vars

\* Runs about the migration: an entry of any version, with any of the
\* interval keys present or absent, migrated once and again.
NextMigrate == async_migrate_entry

MigrateSpec == InitMigrate /\ [][NextMigrate]_vars

\* The state once async_setup_entry has finished, for an account with any
\* of the zones.
InitResume ==
    /\ now = 0
    /\ optimistic_zones = << >>
    /\ optimistic_presence = "None"
    /\ optimistic_time = 0
    /\ q_pending = [k \in Keys |-> NoEntry]
    /\ q_running = [k \in Keys |-> NoEntry]
    /\ dm_zones_meta \in SUBSET Zones
    /\ dm_devices_meta = {"d1"}
    /\ last_slow_poll = 0
    /\ slow_poll_seconds \in {hrs * SECONDS_PER_HOUR : hrs \in SlowPollHours}
    /\ zones_meta = dm_zones_meta
    /\ devices_meta = {"d1"}
    /\ \E zs \in VendorZoneStates :
          data = Some([home_state |-> "HOME", zone_states |-> zs,
                       zones |-> zones_meta, devices |-> {"d1"},
                       rate_limit |-> [limit |-> 0, remaining |-> 0]])
    /\ last_update_success = TRUE
    /\ update_interval \in ScanIntervals
    /\ refresh_token = 0
    /\ entry_data = [refresh_token |-> 0,
                     scan_interval |-> update_interval,
                     slow_poll_interval |-> slow_poll_seconds \div SECONDS_PER_HOUR]
    /\ tado_token = 0
    /\ RATE_LIMIT_DATA = [limit |-> 0, remaining |-> 0]
    /\ pc = "idle"
    /\ cyc = IdleCyc
    /\ sync = IdleSync
    /\ entry_version = CURRENT_VERSION
    /\ ent_reg = {}
    /\ mig = NoMigration
    /\ rs = [n |-> 0]
    /\ ops = [n |-> 0,
              last |-> NoCmd,
              notified |-> 0,
              shown |-> async_update_listeners(<< >>, "None", 0,
                                               [k \in Keys |-> NoEntry]),
              zhist |-> [z \in Zones |->
                           [prev |-> "none", prev_time |-> 0,
                            last |-> "none", time |-> 0,
                            prev_unfinished |-> FALSE]]]
    /\ qh = [waiting |-> [k \in Keys |-> 0],
             newest |-> [k \in Keys |-> NoCmd],
             ncalls |-> [k \in Keys |-> 0],
             last |-> [k \in Keys |-> NoCmd],
             served |-> [k \in Keys |-> 0],
             failed |-> [k \in Keys |-> 0],
             done |-> [k \in Keys |-> 0]]
    /\ rh = None
    /\ fh = [n |-> 1,
             calls |-> <<"get_zones", "get_devices", "get_home_state",
                         "get_zone_states">>,
             result |-> "ok", cause |-> "none", report |-> "none", errors |-> 0,
             sweeps |-> 1, stored |-> "yes", held |-> FALSE, age |-> 0,
             cache0 |-> IdleCache0,
             shown |-> Publish(<< >>, "None", data)]

\* Runs about the resume service: the operations that store predictions,
\* the queue worker on one zone, and async_resume_all_schedules.
NextResume ==
    \/ \E z \in Zones : async_set_zone_heat(z, DEFAULT_HEAT_TEMP)
    \/ async_set_presence_debounced("AWAY")
    \/ QueueStart(ZoneKey(1))
    \/ QueueDone(ZoneKey(1), "ok", NoHeaders)
    \/ async_resume_all_schedules

ResumeSpec == InitResume /\ [][NextResume]_vars

\* C1: commands issued for one target before a network call for it begins
\* are answered by exactly one network call, which carries the payload of
\* the newest of them: a call for a target begins only while commands for it
\* wait, it carries the newest payload, and while commands wait the newest
\* one is the one the queue holds for the next call.
C1_SupersedeOneCall ==
    /\ [](\A g \in Keys :
            qh.waiting[g] > 0 =>
                Cardinality({k \in Keys :
                    /\ q_pending[k] # NoEntry
                    /\ TargetOf(q_pending[k].action) = g}) = 1
                /\ \A k \in Keys :
                      (q_pending[k] # NoEntry /\ TargetOf(q_pending[k].action) = g)
                          => q_pending[k].action = qh.newest[g])
    /\ [][\A g \in Keys :
            qh'.ncalls[g] # qh.ncalls[g] =>
                /\ qh'.ncalls[g] = qh.ncalls[g] + 1
                /\ qh.waiting[g] > 0
                /\ qh'.last[g] = qh.newest[g]]_vars

\* two commands were issued for a zone before its call began, one call was
\* made, with the second command's payload
C1_Witness ==
    \E z \in Zones :
        /\ qh.served[ZoneKey(z)] = 2
        /\ qh.ncalls[ZoneKey(z)] = 1
        /\ ops.zhist[z].prev = "heat"
        /\ ops.zhist[z].last = "auto"
        /\ qh.last[ZoneKey(z)] = Cmd("reset_zone_overlay", z, 0, "-")

\* C2: a zone set to manual heat and then resumed while the heat command
\* was still unfinished reads as auto/schedule for the whole grace period
\* after the resume: the optimistic overlay is False and the schedule switch
\* is on.
C2_ResumeReadsAsSchedule ==
    \A z \in Zones :
        ( /\ ops.zhist[z].prev = "heat"
          /\ ops.zhist[z].last = "auto"
          /\ ops.zhist[z].prev_unfinished
          /\ (now - ops.zhist[z].time) < OPTIMISTIC_GRACE_PERIOD_S )
        => /\ ResolveZone(z) = Some(FALSE)
           /\ ScheduleOptimisticValue(z) = Some(TRUE)
           /\ ScheduleIsOn(z)

\* heat, resume 15 s later, read 15 s after the resume, while the last
\* fetched zone state still says that an overlay is active
C2_Witness ==
    \E z \in Zones :
        /\ ops.zhist[z].prev = "heat"
        /\ ops.zhist[z].last = "auto"
        /\ ops.zhist[z].prev_unfinished
        /\ ops.zhist[z].time - ops.zhist[z].prev_time = 15
        /\ now - ops.zhist[z].time = 15
        /\ data[1].zone_states[z]
        /\ ScheduleIsOn(z)

\* C3 as stated: no stored optimistic entry is ever older than the grace
\* period.
C3_NoEntryOlderThanGrace ==
    /\ \A z \in DOMAIN optimistic_zones :
          (now - optimistic_zones[z].time) <= OPTIMISTIC_GRACE_PERIOD_S
    /\ optimistic_presence # "None"
          => (now - optimistic_time) <= OPTIMISTIC_GRACE_PERIOD_S

\* C3 as amended: at the end of every successful refresh cycle no stored
\* optimistic entry is older than the grace period.
C3_SweptBySuccessfulCycle ==
    [][(pc = "get_zone_states" /\ fh'.result = "ok") =>
          /\ \A z \in DOMAIN optimistic_zones' :
                (now' - optimistic_zones'[z].time) <= OPTIMISTIC_GRACE_PERIOD_S
          /\ optimistic_presence' # "None"
                => (now' - optimistic_time') <= OPTIMISTIC_GRACE_PERIOD_S]_vars

\* a successful cycle has removed the expired entry of a zone that was set
C3_Witness ==
    \E z \in Zones :
        /\ fh.sweeps >= 2
        /\ fh.result = "ok"
        /\ ops.zhist[z].last # "none"
        /\ (now - ops.zhist[z].time) > OPTIMISTIC_GRACE_PERIOD_S
        /\ z \notin DOMAIN optimistic_zones

\* C4: a prediction whose age has reached the grace period, the boundary
\* included, is not returned to readers, for zones and for presence.
C4_ExpiredNotReturned ==
    /\ \A z \in DOMAIN optimistic_zones :
          (now - optimistic_zones[z].time) >= OPTIMISTIC_GRACE_PERIOD_S
              => /\ ResolveZone(z) = None
                 /\ ScheduleOptimisticValue(z) = None
    /\ (now - optimistic_time) >= OPTIMISTIC_GRACE_PERIOD_S
          => /\ ResolvePresence = None
             /\ AwayOptimisticValue = None

\* an entry is stored whose age equals the grace period exactly, and a
\* presence prediction older than it
C4_Witness ==
    /\ \E z \in DOMAIN optimistic_zones :
          /\ (now - optimistic_zones[z].time) = OPTIMISTIC_GRACE_PERIOD_S
          /\ ResolveZone(z) = None
    /\ optimistic_presence # "None"
    /\ (now - optimistic_time) > OPTIMISTIC_GRACE_PERIOD_S

\* C5: one entry per zone and one presence prediction; a mutation stores its
\* own value and the current time for its key, replacing what was there, and
\* leaves the entries of the other keys as they were.
C5_LastWriteWins ==
    /\ [](/\ DOMAIN optimistic_zones \subseteq Zones
          /\ optimistic_presence \in Presences \cup {"None"})
    /\ [][ops'.n = ops.n + 1 =>
            LET a == ops'.last
            IN  IF a.fn = "set_presence"
                THEN /\ optimistic_presence' = a.presence
                     /\ optimistic_time' = now
                     /\ optimistic_zones' = optimistic_zones
                ELSE /\ DOMAIN optimistic_zones' =
                            (DOMAIN optimistic_zones) \cup {a.zone}
                     /\ optimistic_zones'[a.zone] =
                            [overlay |-> (a.fn = "set_zone_overlay"),
                             time |-> now]
                     /\ \A z \in (DOMAIN optimistic_zones) \ {a.zone} :
                            optimistic_zones'[z] = optimistic_zones[z]
                     /\ optimistic_presence' = optimistic_presence
                     /\ optimistic_time' = optimistic_time]_vars

\* two mutations of one zone 15 s apart, neither expired: the entry is the
\* second one's
C5_Witness ==
    \E z \in DOMAIN optimistic_zones :
        /\ ops.zhist[z].prev = "auto"
        /\ ops.zhist[z].last = "heat"
        /\ ops.zhist[z].prev_time < ops.zhist[z].time
        /\ (now - ops.zhist[z].prev_time) < OPTIMISTIC_GRACE_PERIOD_S
        /\ optimistic_zones[z] = [overlay |-> TRUE, time |-> ops.zhist[z].time]

\* the data manager's cache
Cache == [zones |-> dm_zones_meta, devices |-> dm_devices_meta,
          last |-> last_slow_poll]

\* C6 as stated: a fetch that starts with metadata cached by an earlier
\* successful fetch and younger than the slow-poll interval makes no
\* metadata call, and when it succeeds it has made exactly get_home_state
\* and get_zone_states.
C6_CachedYoungNoMetadataCalls ==
    /\ []((pc # "idle" /\ fh.held /\ fh.age < slow_poll_seconds)
            => /\ pc \in {"get_home_state", "get_zone_states"}
               /\ \A i \in 1..Len(fh.calls) :
                     fh.calls[i] \notin {"get_zones", "get_devices"})
    /\ [][(pc # "idle" /\ fh.held /\ fh.age < slow_poll_seconds
             /\ fh'.result = "ok")
            => fh'.calls = <<"get_home_state", "get_zone_states">>]_vars

\* C7: a fetch starts with the slow track whenever no metadata is cached or
\* the cached metadata is older than the configured interval; the slow track
\* is get_zones then get_devices, and every fetch that completes has made
\* get_home_state and get_zone_states last, whether or not the slow track ran.
C7_SlowWhenDueFastAlways ==
    /\ [](slow_poll_seconds \in {hrs * 3600 : hrs \in SlowPollHours})
    /\ [][fh'.n = fh.n + 1 =>
            ((fh'.stored = "no" \/ (now - last_slow_poll) > slow_poll_seconds)
                => pc' = "get_zones")]_vars
    /\ [][(pc # "idle" /\ fh'.result = "ok") =>
            fh'.calls \in {<<"get_home_state", "get_zone_states">>,
                           <<"get_zones", "get_devices", "get_home_state",
                             "get_zone_states">>}]_vars

\* a fetch refetches non-empty metadata because it is older than the interval
C7_Witness ==
    /\ pc = "get_devices"
    /\ fh.held
    /\ fh.age > slow_poll_seconds
    /\ fh.cache0.zones # {}

\* C8 as stated: when a vendor call of the fetch fails, the fetch fails with
\* one error and the cache is what it was before the fetch.
C8_FailedFetchLeavesCacheAsBefore ==
    [][(pc # "idle" /\ fh'.result = "failed") =>
          /\ fh'.errors = fh.errors + 1
          /\ Cache' = fh.cache0]_vars

\* C8 as amended: a failing vendor call ends the fetch with one error and
\* writes nothing to the cache; when get_zones or get_devices fails, or the
\* slow track did not run, the cache is what it was before the fetch; when
\* get_home_state or get_zone_states fails after the slow track ran, the
\* devices and the timestamp stored by that slow track stay cached.
C8_FailedFetchKeepsStoredSlowTrack ==
    [][(pc # "idle" /\ fh'.result = "failed") =>
          LET slow_ran == \E i \in 1..Len(fh.calls) : fh.calls[i] = "get_devices"
          IN  /\ fh'.errors = fh.errors + 1
              /\ Cache' = Cache
              /\ ~slow_ran => Cache' = fh.cache0
              /\ slow_ran => /\ pc \in {"get_home_state", "get_zone_states"}
                             /\ last_slow_poll' = cyc.current_time]_vars

\* the only fetch so far failed in the fast track, and the metadata of its
\* slow track is cached
C8_Witness ==
    /\ fh.n = 1
    /\ fh.result = "failed"
    /\ fh.calls = <<"get_zones", "get_devices", "get_home_state">>
    /\ last_slow_poll > 0
    /\ dm_zones_meta # {}
    /\ dm_devices_meta # {}

\* C9: a cycle whose fetch fails reports one error, leaves the published
\* data and the coordinator's metadata unchanged, and leaves the coordinator
\* idle so that the next cycle can start and fetch again.
C9_FailedCycleKeepsSnapshot ==
    /\ [][(pc # "idle" /\ fh'.result = "failed") =>
            /\ fh'.errors = fh.errors + 1
            /\ ~last_update_success'
            /\ data' = data
            /\ zones_meta' = zones_meta
            /\ devices_meta' = devices_meta
            /\ pc' = "idle"]_vars
    /\ []((fh.result = "failed" /\ fh.n < MaxCycles) => ENABLED TimerRefresh)

\* a cycle failed after its slow track had stored new metadata: the
\* coordinator still has the snapshot of the last successful cycle
C9_Witness ==
    /\ fh.result = "failed"
    /\ fh.errors = 1
    /\ data # None
    /\ pc = "idle"
    /\ zones_meta # dm_zones_meta
    /\ data[1].zones = zones_meta

\* C10: the rate-limit snapshot is the pair of the latest response that
\* reported one, and the rate_limit a successful cycle publishes is the
\* snapshot as it is when that cycle's fetch ends.
C10_SnapshotIsLatestPair ==
    /\ []((rh # None /\ rh[1].q # -1 /\ rh[1].r # -1)
            => RATE_LIMIT_DATA = [limit |-> rh[1].q, remaining |-> rh[1].r])
    /\ [][(pc = "get_zone_states" /\ fh'.result = "ok")
            => data'[1].rate_limit = RATE_LIMIT_DATA']_vars

\* (1000, 998) was published, then a response reported (1000, 987)
C10_Witness ==
    /\ data # None
    /\ data[1].rate_limit = [limit |-> 1000, remaining |-> 998]
    /\ rh = Some([q |-> 1000, r |-> 987])
    /\ RATE_LIMIT_DATA = [limit |-> 1000, remaining |-> 987]

\* the vendor calls of the command queue in flight for one target
InFlight(g) ==
    {k \in Keys : q_running[k] # NoEntry /\ TargetOf(q_running[k].action) = g}

\* C11: at most one vendor call of the command queue is in flight for a
\* queue key at any moment: every call in flight is held under the key of its
\* own zone or of presence, no target has two calls in flight, and a call
\* begins for a key only while none is in flight for it.
C11_OneInFlightPerKey ==
    /\ [](\A g \in Keys :
            /\ Cardinality(InFlight(g)) <= 1
            /\ InFlight(g) \subseteq {g})
    /\ [][\A g \in Keys :
            qh'.ncalls[g] # qh.ncalls[g] => InFlight(g) = {}]_vars

\* a second command for a zone waits while the first one's call is in flight
C11_Witness ==
    \E z \in Zones :
        /\ InFlight(ZoneKey(z)) = {ZoneKey(z)}
        /\ q_pending[ZoneKey(z)] # NoEntry
        /\ qh.ncalls[ZoneKey(z)] = 1
        /\ qh.waiting[ZoneKey(z)] = 1

\* C12: every mutating operation stores its optimistic entry with the
\* current time, then notifies the listeners, then queues exactly one
\* command: the listeners, notified once per operation, read the new entry
\* and a queue that does not hold the operation's command yet, and when the
\* operation ends its command is the one waiting under its key, the other
\* keys and the calls in flight being as they were.
C12_StoreNotifyEnqueue ==
    [][ops'.n = ops.n + 1 =>
          LET a == ops'.last
              k == TargetOf(a)
              seen == ops'.shown
          IN  /\ ops'.notified = ops.notified + 1
              /\ seen.zones = optimistic_zones'
              /\ seen.presence = optimistic_presence'
              /\ seen.time = optimistic_time'
              /\ IF a.fn = "set_presence"
                 THEN seen.presence = a.presence /\ seen.time = now
                 ELSE seen.zones[a.zone] =
                         [overlay |-> (a.fn = "set_zone_overlay"), time |-> now]
              /\ seen.pending = q_pending
              /\ q_pending' = [q_pending EXCEPT ![k] =
                                  [category |-> IF a.fn = "set_presence"
                                                THEN "presence" ELSE "zone",
                                   action |-> a]]
              /\ q_running' = q_running
              /\ qh'.waiting[k] = qh.waiting[k] + 1]_vars

\* the second of two operations was a presence change: its listeners read
\* the new presence while no presence command was waiting, and the command
\* waits now
C12_Witness ==
    /\ ops.n = 2
    /\ ops.notified = 2
    /\ ops.last.fn = "set_presence"
    /\ ops.shown.presence = ops.last.presence
    /\ ops.shown.time = now
    /\ ops.shown.pending["presence"] = NoEntry
    /\ q_pending["presence"].action = ops.last

\* C13: a mutating operation returns without waiting for the vendor: the
\* operation itself makes no vendor call, starts none and receives no
\* response, and it can run to its end whatever calls are waiting or in
\* flight.
C13_ReturnsWithoutVendor ==
    /\ [][ops'.n = ops.n + 1 =>
            /\ qh'.ncalls = qh.ncalls
            /\ q_running' = q_running
            /\ fh'.calls = fh.calls
            /\ pc' = pc
            /\ RATE_LIMIT_DATA' = RATE_LIMIT_DATA
            /\ rh' = rh]_vars
    /\ []((SetupDone /\ ops.n < MaxOps) =>
            /\ \A z \in Zones : ENABLED async_set_zone_auto(z)
            /\ \A z \in Zones, t \in Temps : ENABLED async_set_zone_heat(z, t)
            /\ \A p \in Presences : ENABLED async_set_presence_debounced(p))

\* a zone was set to heat, and the operation returned, while the call of the
\* zone's earlier resume was still in flight
C13_Witness ==
    \E z \in Zones :
        /\ ops.zhist[z].prev = "auto"
        /\ ops.zhist[z].last = "heat"
        /\ ops.zhist[z].prev_unfinished
        /\ q_running[ZoneKey(z)].action = Cmd("reset_zone_overlay", z, 0, "-")
        /\ q_pending[ZoneKey(z)].action.fn = "set_zone_overlay"

\* C15 as stated: an authentication failure is reported as an outcome of its
\* own that asks for re-authorization, during setup and during a refresh
\* cycle, and never as an ordinary failed update.
C15_AuthFailureIsDistinct ==
    /\ \A t \in BOOLEAN :
          async_setup_entry_init_error("TadoAuthenticationError", t)
              = "ConfigEntryAuthFailed"
    /\ (fh.result = "failed" /\ fh.cause = "auth_error")
          => /\ fh.report = "ConfigEntryAuthFailed"
             /\ fh.report # "UpdateFailed"

\* C16: a failed command does not roll its optimistic entry back: the step
\* in which a command fails leaves the overlay as it is, and an entry or the
\* presence prediction changes only by a newer operation for the same key or
\* by the sweep of a successful cycle removing it after it has expired.
C16_NoRollback ==
    [][/\ qh'.failed # qh.failed => UNCHANGED ovars
       /\ \A z \in Zones :
             ( \/ (z \in DOMAIN optimistic_zones) # (z \in DOMAIN optimistic_zones')
               \/ /\ z \in DOMAIN optimistic_zones
                  /\ z \in DOMAIN optimistic_zones'
                  /\ optimistic_zones'[z] # optimistic_zones[z] )
             => \/ /\ ops'.n = ops.n + 1
                   /\ TargetOf(ops'.last) = ZoneKey(z)
                \/ /\ fh'.sweeps = fh.sweeps + 1
                   /\ z \in DOMAIN optimistic_zones
                   /\ z \notin DOMAIN optimistic_zones'
                   /\ (now - optimistic_zones[z].time) > OPTIMISTIC_GRACE_PERIOD_S
       /\ (optimistic_presence' # optimistic_presence
             \/ optimistic_time' # optimistic_time)
             => \/ /\ ops'.n = ops.n + 1
                   /\ ops'.last.fn = "set_presence"
                \/ /\ fh'.sweeps = fh.sweeps + 1
                   /\ optimistic_presence' = "None"
                   /\ optimistic_time' = optimistic_time
                   /\ (now - optimistic_time) > OPTIMISTIC_GRACE_PERIOD_S]_vars

\* the heat command of a zone failed 15 s after it was issued, a cycle has
\* swept since, and the zone's entry is still the one the operation wrote
C16_Witness ==
    /\ qh.failed[ZoneKey(1)] = 1
    /\ ops.zhist[1].last = "heat"
    /\ qh.ncalls[ZoneKey(1)] = 1
    /\ q_running[ZoneKey(1)] = NoEntry
    /\ fh.sweeps = 2
    /\ 1 \in DOMAIN optimistic_zones
    /\ optimistic_zones[1] = [overlay |-> TRUE, time |-> ops.zhist[1].time]
    /\ now - ops.zhist[1].time = 15

\* C17 as stated: when a refresh cycle ends and the vendor's latest report
\* says that the budget is used up (remaining 0, with or without an error
\* status), the cycles that follow are scheduled at a longer interval than
\* before.
C17_BackoffWhenBudgetExhausted ==
    [][(pc # "idle" /\ pc' = "idle" /\ rh' = Some([q |-> 1000, r |-> 0]))
          => update_interval' > update_interval]_vars

\* C18: when a call begins for a key it is the call of the newest waiting
\* command and nothing older stays behind to be called later; a call that
\* has begun is never changed or removed by a later operation, it leaves
\* only by completing, and every call begun is either in flight or
\* completed.
C18_DiscardPendingKeepRunning ==
    /\ [](\A g \in Keys :
            qh.ncalls[g] = qh.done[g] + Cardinality(InFlight(g)))
    /\ [][\A g \in Keys :
            /\ qh'.ncalls[g] # qh.ncalls[g] =>
                  /\ q_running'[g].action = qh.newest[g]
                  /\ q_pending'[g] = NoEntry
                  /\ qh'.ncalls[g] = qh.ncalls[g] + 1
                  /\ qh'.done[g] = qh.done[g]
            /\ (q_running[g] # NoEntry /\ q_running'[g] # q_running[g]) =>
                  /\ q_running'[g] = NoEntry
                  /\ qh'.done[g] = qh.done[g] + 1
                  /\ ops' = ops
                  /\ q_pending' = q_pending]_vars

\* a zone's second command was issued while the first one's call was in
\* flight; the first call completed, and only then the second one's began
C18_Witness ==
    \E z \in Zones :
        /\ ops.zhist[z].prev = "heat"
        /\ ops.zhist[z].last = "auto"
        /\ ops.zhist[z].prev_unfinished
        /\ qh.served[ZoneKey(z)] = 1
        /\ qh.ncalls[ZoneKey(z)] = 2
        /\ qh.done[ZoneKey(z)] = 1
        /\ q_running[ZoneKey(z)].action = Cmd("reset_zone_overlay", z, 0, "-")

\* C19: a successful cycle fetches, then reconciles, then publishes: when
\* its last vendor call has returned, the sweep has run and the rate-limit
\* snapshot has been merged into the fetched data before the listeners are
\* given that data; a cycle whose fetch fails sweeps nothing, leaves the
\* overlay alone and publishes no new data.
C19_FetchReconcilePublish ==
    [][/\ (pc # "idle" /\ fh'.result = "ok") =>
             /\ pc = "get_zone_states"
             /\ fh'.calls[Len(fh'.calls)] = "get_zone_states"
             /\ fh'.sweeps = fh.sweeps + 1
             /\ fh'.shown.zones = optimistic_zones'
             /\ fh'.shown.presence = optimistic_presence'
             /\ \A z \in DOMAIN fh'.shown.zones :
                   (now - fh'.shown.zones[z].time) <= OPTIMISTIC_GRACE_PERIOD_S
             /\ fh'.shown.presence # "None"
                   => (now - optimistic_time) <= OPTIMISTIC_GRACE_PERIOD_S
             /\ fh'.shown.data = data'
             /\ data'[1].rate_limit = InjectedRateLimit(RATE_LIMIT_DATA')
             /\ data'[1].home_state = cyc.home_state
       /\ (pc # "idle" /\ fh'.result = "failed") =>
             /\ fh'.sweeps = fh.sweeps
             /\ UNCHANGED ovars
             /\ data' = data
             /\ fh'.shown = fh.shown]_vars

\* a cycle has swept an expired zone entry and merged the reported rate
\* limit, and its listeners were given exactly that
C19_Witness ==
    /\ fh.result = "ok"
    /\ fh.sweeps = 2
    /\ ops.zhist[1].last = "heat"
    /\ (now - ops.zhist[1].time) > OPTIMISTIC_GRACE_PERIOD_S
    /\ 1 \notin DOMAIN fh.shown.zones
    /\ fh.shown.data = data
    /\ data[1].rate_limit = [limit |-> 1000, remaining |-> 998]

\* C20: the sweep removes every zone entry older than the grace period and
\* clears the presence prediction when it is older than the grace period;
\* every entry whose age is within the grace period, the boundary included,
\* keeps its value and its timestamp, and the sweep adds nothing.
C20_SweepRemovesExpiredOnly ==
    [][fh'.sweeps = fh.sweeps + 1 =>
          /\ DOMAIN optimistic_zones' \subseteq DOMAIN optimistic_zones
          /\ \A z \in DOMAIN optimistic_zones :
                IF (now - optimistic_zones[z].time) > OPTIMISTIC_GRACE_PERIOD_S
                THEN z \notin DOMAIN optimistic_zones'
                ELSE /\ z \in DOMAIN optimistic_zones'
                     /\ optimistic_zones'[z] = optimistic_zones[z]
          /\ optimistic_presence' =
                IF (now - optimistic_time) > OPTIMISTIC_GRACE_PERIOD_S
                THEN "None"
                ELSE optimistic_presence
          /\ optimistic_time' = optimistic_time]_vars

\* a sweep has removed the entry of zone 1, older than the grace period, and
\* kept the entry of zone 2, whose age is the grace period exactly
C20_Witness ==
    /\ fh.sweeps = 2
    /\ fh.result = "ok"
    /\ ops.zhist[1].last # "none"
    /\ 1 \notin DOMAIN optimistic_zones
    /\ 2 \in DOMAIN optimistic_zones
    /\ (now - optimistic_zones[2].time) = OPTIMISTIC_GRACE_PERIOD_S
    /\ fh.shown.zones = optimistic_zones

\* the refresh cycles that have run to their end
CyclesEnded == fh.n - (IF pc = "idle" THEN 0 ELSE 1)

\* C21 as stated: the overlay sweep is called exactly once in each refresh
\* cycle, for every cycle the coordinator runs (timer-driven or started by
\* async_manual_poll), and by no other operation: the sweeps are as many as
\* the cycles that have ended.
C21_SweepOncePerCycle == fh.sweeps = CyclesEnded

\* C21 as amended: the overlay sweep is called exactly once in each refresh
\* cycle whose fetch succeeds, not at all in a cycle whose fetch fails, and
\* by no other operation: the sweeps are as many as the cycles that have
\* ended without a failure, and only the last step of a successful cycle
\* adds one.
C21_SweepOncePerSuccessfulCycle ==
    [][/\ fh'.sweeps = fh'.n - fh'.errors - (IF pc' = "idle" THEN 0 ELSE 1)
       /\ fh'.sweeps # fh.sweeps =>
             /\ pc = "get_zone_states"
             /\ fh'.result = "ok"
             /\ fh'.sweeps = fh.sweeps + 1]_vars

\* a timer cycle has succeeded and swept, and the cycle that a manual poll
\* started after it has failed without a sweep
C21_Witness ==
    /\ pc = "idle"
    /\ fh.n = 2
    /\ fh.errors = 1
    /\ fh.result = "failed"
    /\ fh.sweeps = 1
    /\ zones_meta # {}
    /\ dm_zones_meta = {}

\* C22 as stated: an optimistic entry is deleted once an authoritative update
\* covering its scope has been observed, even before its grace period has
\* expired: a successful refresh cycle leaves no prediction stored, a
\* finished async_sync_states for "zone" leaves no zone entry and one for
\* "presence" leaves no presence prediction.
C22_DeletedOnAuthoritativeUpdate ==
    [][/\ (pc = "get_zone_states" /\ fh'.result = "ok" /\ fh'.n = fh.n
             /\ pc' = "idle")
          => /\ optimistic_zones' = << >>
             /\ optimistic_presence' = "None"
       /\ (sync.pc # "idle" /\ sync'.pc = "idle" /\ sync'.result = "ok")
          => /\ "zone" \in sync.types => optimistic_zones' = << >>
             /\ "presence" \in sync.types => optimistic_presence' = "None"]_vars

C24_LastFetchedIsPublished ==
    (/\ pc = "idle"
     /\ sync.pc = "idle"
     /\ sync.result = "ok"
     /\ fh.result = "ok"
     /\ sync.cycle = fh.n)
    => data[1].home_state = sync.home_state

\* C25: a zone command, reset-overlay or set-overlay, is queued under the
\* key "zone_<z>" of its own zone with category "zone", and a presence
\* command under the key "presence" with category "presence"; the keys of
\* two different zones differ, and no zone key is the presence key.
C25_KeyByTarget ==
    /\ \A k \in Keys :
          \A e \in {q_pending[k], q_running[k]} \ {NoEntry} :
             /\ e.action.fn \in {"reset_zone_overlay", "set_zone_overlay",
                                 "set_presence"}
             /\ e.action.fn \in {"reset_zone_overlay", "set_zone_overlay"}
                   => /\ k = "zone_" \o ToString(e.action.zone)
                      /\ e.category = "zone"
             /\ e.action.fn = "set_presence"
                   => /\ k = "presence"
                      /\ e.category = "presence"
    /\ \A z1, z2 \in Zones : ZoneKey(z1) = ZoneKey(z2) => z1 = z2
    /\ \A z \in Zones : ZoneKey(z) # "presence"

\* a set-overlay command waits under the key under which the reset-overlay
\* command of the same zone is in flight
C25_Witness ==
    \E z \in Zones :
        /\ q_running[ZoneKey(z)] # NoEntry
        /\ q_running[ZoneKey(z)].action.fn = "reset_zone_overlay"
        /\ q_pending[ZoneKey(z)] # NoEntry
        /\ q_pending[ZoneKey(z)].action.fn = "set_zone_overlay"
        /\ q_pending[ZoneKey(z)].action.zone = z

\* C26: after every successful refresh cycle the coordinator's stored
\* refresh token and the one in the config entry equal the client's current
\* token; the entry is written only by a cycle that finds the client's token
\* different from the stored one, the write keeps every other key of the
\* entry's data, and a cycle whose fetch fails writes neither.
C26_TokenSync ==
    [][/\ (pc = "get_zone_states" /\ fh'.result = "ok")
          => /\ refresh_token' = tado_token'
             /\ entry_data'["refresh_token"] = tado_token'
       /\ entry_data' # entry_data
          => /\ pc = "get_zone_states"
             /\ fh'.result = "ok"
             /\ tado_token # refresh_token
             /\ DOMAIN entry_data' = DOMAIN entry_data
             /\ \A k \in (DOMAIN entry_data) \ {"refresh_token"} :
                   entry_data'[k] = entry_data[k]
       /\ (pc # "idle" /\ fh'.result = "failed")
          => UNCHANGED <<entry_data, refresh_token>>]_vars

\* a cycle has succeeded after the client rotated its token, and the entry
\* holds the new token beside its other keys
C26_Witness ==
    /\ pc = "idle"
    /\ fh.result = "ok"
    /\ tado_token = 1
    /\ refresh_token = 1
    /\ entry_data["refresh_token"] = 1
    /\ entry_data["scan_interval"] = DEFAULT_SCAN_INTERVAL
    /\ entry_data["slow_poll_interval"] \in SlowPollHours

\* C27: async_migrate_entry on an entry of version 1 to 6 runs the steps to
\* the versions above the entry's, in ascending order and each once, and
\* ends with version 7 and the result True; on an entry of version 7 it runs
\* no step and leaves data and version as they are, so a second run changes
\* nothing.
C27_MigratesToCurrentOnce ==
    mig.n >= 1 =>
       /\ mig.result = "True"
       /\ entry_version = 7
       /\ mig.before.version \in 1..7
       /\ mig.steps = [i \in 1..(7 - mig.before.version) |->
                          mig.before.version + i]
       /\ mig.before.version = 7 =>
             /\ entry_data = mig.before.data
             /\ ent_reg = mig.before.reg
       /\ mig.n >= 2 =>
             /\ mig.before.version = 7
             /\ mig.steps = << >>

\* an entry of version 1 has been migrated twice: six steps ran in the first
\* run (they are no longer the latest), none in the second
C27_Witness ==
    /\ mig.n = 2
    /\ mig.orig.version = 1
    /\ mig.steps = << >>
    /\ entry_version = 7
    /\ entry_data = mig.before.data
    /\ entry_data # mig.orig.data

\* C28: after migrating an entry of a version below 6, the scan interval,
\* the presence-poll interval and the slow-poll interval hold their default
\* values whatever the entry held before, and every other key of the data,
\* the refresh token among them, holds the value it had before.
C28_IntervalsResetOthersKept ==
    (mig.n >= 1 /\ mig.orig.version < 6) =>
       /\ entry_data["scan_interval"] = DEFAULT_SCAN_INTERVAL
       /\ entry_data["presence_poll_interval"] = DEFAULT_PRESENCE_POLL_INTERVAL
       /\ entry_data["slow_poll_interval"] = DEFAULT_SLOW_POLL_INTERVAL
       /\ DOMAIN entry_data = (DOMAIN mig.orig.data) \cup IntervalKeys
       /\ \A k \in (DOMAIN mig.orig.data) \ IntervalKeys :
             entry_data[k] = mig.orig.data[k]

\* an entry of version 2 with a scan interval of 1800 and no presence-poll
\* interval has been migrated
C28_Witness ==
    /\ mig.n = 1
    /\ mig.orig.version = 2
    /\ "scan_interval" \in DOMAIN mig.orig.data
    /\ mig.orig.data["scan_interval"] = 1800
    /\ "presence_poll_interval" \notin DOMAIN mig.orig.data
    /\ entry_data["scan_interval"] = 3600
    /\ entry_data["refresh_token"] = mig.orig.data["refresh_token"]

\* C29: async_resume_all_schedules stores an optimistic entry with overlay
\* False for every zone of the coordinator's zone metadata and enqueues one
\* reset-overlay command under that zone's key; the entries and the waiting
\* commands of zones not in the metadata, the presence prediction and its
\* waiting command are unchanged; with no zones known nothing is stored or
\* enqueued.
C29_ResumeEveryKnownZone ==
    [][rs'.n # rs.n =>
          /\ \A z \in zones_meta :
                /\ z \in DOMAIN optimistic_zones'
                /\ optimistic_zones'[z] = [overlay |-> FALSE, time |-> now]
                /\ q_pending'[ZoneKey(z)] =
                      [category |-> "zone",
                       action |-> Cmd("reset_zone_overlay", z, 0, "-")]
                /\ qh'.waiting[ZoneKey(z)] = qh.waiting[ZoneKey(z)] + 1
          /\ \A z \in Zones \ zones_meta :
                /\ z \in DOMAIN optimistic_zones' <=> z \in DOMAIN optimistic_zones
                /\ z \in DOMAIN optimistic_zones
                      => optimistic_zones'[z] = optimistic_zones[z]
                /\ q_pending'[ZoneKey(z)] = q_pending[ZoneKey(z)]
                /\ qh'.waiting[ZoneKey(z)] = qh.waiting[ZoneKey(z)]
          /\ DOMAIN optimistic_zones' \subseteq
                (DOMAIN optimistic_zones) \cup zones_meta
          /\ q_pending'["presence"] = q_pending["presence"]
          /\ UNCHANGED <<optimistic_presence, optimistic_time, q_running>>
          /\ ops'.n = ops.n + Cardinality(zones_meta)
          /\ zones_meta = {} => UNCHANGED <<ovars, qvars, ops, qh>>]_vars

\* the resume ran with zone 1 known and zone 2 not, while zone 2 held a
\* prediction of the heat operation and presence a prediction too
C29_Witness ==
    /\ rs.n = 1
    /\ zones_meta = {1}
    /\ 1 \in DOMAIN optimistic_zones
    /\ ~optimistic_zones[1].overlay
    /\ q_pending[ZoneKey(1)].action.fn = "reset_zone_overlay"
    /\ 2 \in DOMAIN optimistic_zones
    /\ optimistic_zones[2].overlay
    /\ optimistic_presence = "AWAY"
    /\ ops.last.fn = "reset_zone_overlay"

\* C30: the rate-limit snapshot changes only with a response that carries
\* q= or r=; such a response, whatever its status, overwrites both limit and
\* remaining, a field it does not carry being stored as 0; a response that
\* carries neither, and a call without a response, leave both as they are.
\* So the snapshot is always the pair of the latest response that carried a
\* field, and (0, 0) before the first one.
C30_SnapshotFollowsParsableResponses ==
    /\ [](RATE_LIMIT_DATA =
            IF rh = None
            THEN [limit |-> 0, remaining |-> 0]
            ELSE [limit |-> IF rh[1].q = -1 THEN 0 ELSE rh[1].q,
                  remaining |-> IF rh[1].r = -1 THEN 0 ELSE rh[1].r])
    /\ [](rh # None => (rh[1].q # -1 \/ rh[1].r # -1))
    /\ [][RATE_LIMIT_DATA' # RATE_LIMIT_DATA
            => /\ rh' # None
               /\ (pc # "idle" \/ q_running # q_running')]_vars

\* the only response so far had an error status and carried q= alone: the
\* limit is stored and the remaining budget is 0
C30_Witness ==
    /\ fh.n = 1
    /\ fh.calls = <<"get_zones">>
    /\ fh.cause = "http_error"
    /\ rh = Some([q |-> 1000, r |-> -1])
    /\ RATE_LIMIT_DATA = [limit |-> 1000, remaining |-> 0]

====
